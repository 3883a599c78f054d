--------------------------- MODULE EntityTracking ---------------------------
(***************************************************************************)
(* The generated entities: what they trace of their edits.                 *)
(*                                                                         *)
(* An entity has scalar fields, child entities, slices and maps of child   *)
(* entities; here one of each.  Every setter marks its field, and for a    *)
(* slice or a map also what it did.  A child entity marks itself, and its  *)
(* parent asks it.  A snapshot is the state of the entity with its trace,  *)
(* and clears the trace.  The caches store a snapshot only of a dirty      *)
(* entity: an edit that leaves no mark is never stored.                    *)
(*                                                                         *)
(* A nil slice and an empty one are the same here, and so are a nil map    *)
(* and an empty one.  An operation that returns false changes nothing and  *)
(* is no step.                                                             *)
(***************************************************************************)
EXTENDS Naturals, Sequences, SequencesExt, Functions

CONSTANTS
  Keys,      \* of the map
  Values,    \* of a scalar, and the states of a child
  Zero,      \* the value of a new child entity
  Nil,       \* no child entity
  MaxLen,    \* bounds of the runs: the length of the slice, and
  MaxEdits   \* how many edits are between two snapshots

Child == [value : Values, dirty : BOOLEAN]

ASSUME TrackingAssumption ==
  /\ Zero \in Values /\ Nil \notin Child
  /\ MaxLen \in Nat /\ MaxEdits \in Nat

VARIABLES
  scalar,       \* playerID, cityID, ...
  child,        \* profile, resource, ...: its state and its own dirty flag
  slice,        \* buildings, facility: the states of the elements
  map,          \* armies, generals, ...: the states of the elements
  dirty,        \* of the trace
  trace,        \* the fields marked
  sliceChange,  \* changes[slice]
  mapChange,    \* changes[map]
  dirtyKeys,    \* childDirty: the keys of elements that were put or updated
  stored,       \* the state in the last snapshot, or as loaded
  edits         \* the edits since then

fields == <<scalar, child, slice, map>>
marks == <<dirty, trace, sliceChange, mapChange, dirtyKeys>>
trackingVars == <<fields, marks, stored, edits>>

Fields == {"scalar", "child", "slice", "map"}
Indices == 1 .. MaxLen
Partial(S) == UNION {[D -> Values] : D \in SUBSET S}
Maps == Partial(Keys)
Slices == BoundedSeq(Values, MaxLen)
States == [scalar : Values, child : Values, slice : Slices, map : Maps]

\* ensureChange: nothing happened to the slice, to the map.
NoSliceChange == [full |-> FALSE, set |-> <<>>, append |-> <<>>,
                  removeAt |-> <<>>, swapRemoveAt |-> <<>>]
NoMapChange == [full |-> FALSE, set |-> <<>>, delete |-> {}]

TrackingTypeOK ==
  /\ scalar \in Values /\ child \in Child \cup {Nil}
  /\ slice \in Slices /\ map \in Maps
  /\ dirty \in BOOLEAN /\ trace \subseteq Fields
  /\ sliceChange \in [full : BOOLEAN, set : Partial(Indices),
                      append : Seq(Values), removeAt : Seq(Indices),
                      swapRemoveAt : Seq(Indices)]
  /\ mapChange \in [full : BOOLEAN, set : Maps, delete : SUBSET Keys]
  /\ DOMAIN mapChange.set \cap mapChange.delete = {}
  /\ dirtyKeys \subseteq Keys
  /\ stored \in States /\ edits \in Nat

\* Save: a child that is nil is saved as its zero state.
Save ==
  [scalar |-> scalar, child |-> IF child = Nil THEN Zero ELSE child.value,
   slice |-> slice, map |-> map]

\* Dirty.
ChildDirty == child # Nil /\ child.dirty
Dirty == dirty \/ ChildDirty

\* Mutation of DirtyFields: the children are not asked.
OwnFields == trace

DirtyFields == trace \cup (IF ChildDirty THEN {"child"} ELSE {})

\* HydratePlayerEntity: an entity as it is loaded.
Hydrate(s) ==
  /\ scalar = s.scalar /\ child = [value |-> s.child, dirty |-> FALSE]
  /\ slice = s.slice /\ map = s.map
  /\ dirty = FALSE /\ trace = {}
  /\ sliceChange = NoSliceChange /\ mapChange = NoMapChange
  /\ dirtyKeys = {}
  /\ stored = s /\ edits = 0

Edit == edits < MaxEdits /\ edits' = edits + 1 /\ UNCHANGED stored

mark(f) == dirty' = TRUE /\ trace' = trace \cup {f}

-----------------------------------------------------------------------------
(* Scalars and children.                                                   *)

OnlyMarked(f) ==
  mark(f) /\ UNCHANGED <<sliceChange, mapChange, dirtyKeys>>

SetScalar(v) ==
  /\ Edit
  /\ scalar # v
  /\ scalar' = v
  /\ OnlyMarked("scalar")
  /\ UNCHANGED <<child, slice, map>>

\* SetChild puts a new entity in, SetChildEntity another one or none: the
\* states are not compared.
SetChild(c) ==
  /\ Edit
  /\ child' = c
  /\ OnlyMarked("child")
  /\ UNCHANGED <<scalar, slice, map>>

\* A setter of a child entity.
Edited(c, v) == [value |-> v, dirty |-> c.dirty \/ c.value # v]

\* UpdateChild: a child that is nil is made first.
UpdateChild(v) ==
  /\ Edit
  /\ child' = Edited(IF child = Nil THEN [value |-> Zero, dirty |-> FALSE]
                     ELSE child, v)
  /\ OnlyMarked("child")
  /\ UNCHANGED <<scalar, slice, map>>

\* A handler calls a setter of the child that Child() has given it: the
\* parent marks nothing.
EditChild(v) ==
  /\ Edit
  /\ child # Nil /\ child.value # v
  /\ child' = Edited(child, v)
  /\ UNCHANGED <<scalar, slice, map, marks>>

-----------------------------------------------------------------------------
(* Slices.                                                                 *)

\* A change of a slice that is replaced as a whole is not traced further.
Changed(change, next) == IF change.full THEN change ELSE next

MarkSlice(next) ==
  /\ mark("slice")
  /\ sliceChange' = Changed(sliceChange, next)
  /\ UNCHANGED <<mapChange, dirtyKeys>>

\* ReplaceSlice and ClearSlice.
ReplaceSlice(s) ==
  /\ Edit
  /\ s # slice
  /\ slice' = s
  /\ MarkSlice([NoSliceChange EXCEPT !.full = TRUE])
  /\ UNCHANGED <<scalar, child, map>>

AppendSlice(v) ==
  /\ Edit
  /\ Len(slice) < MaxLen
  /\ slice' = Append(slice, v)
  /\ MarkSlice([sliceChange EXCEPT !.append = Append(@, v)])
  /\ UNCHANGED <<scalar, child, map>>

\* f with f[x] = y.
Put(f, x, y) == [z \in DOMAIN f \cup {x} |-> IF z = x THEN y ELSE f[z]]

\* SetSliceAt, and UpdateSliceAt, which compares the states before and after.
SetSliceAt(i, v) ==
  /\ Edit
  /\ slice[i] # v
  /\ slice' = [slice EXCEPT ![i] = v]
  /\ MarkSlice([sliceChange EXCEPT !.set = Put(@, i, v)])
  /\ UNCHANGED <<scalar, child, map>>

RemoveSliceAt(i) ==
  /\ Edit
  /\ slice' = RemoveAt(slice, i)
  /\ MarkSlice([sliceChange EXCEPT !.removeAt = Append(@, i)])
  /\ UNCHANGED <<scalar, child, map>>

\* The last element takes the place of the one removed.
SwapRemoved(s, i) == Front([s EXCEPT ![i] = Last(s)])

\* Mutation of SwapRemoveSliceAt: it is traced as the removal it is not.
SwapRemoveTracedAsRemove(i) ==
  /\ Edit
  /\ slice' = SwapRemoved(slice, i)
  /\ MarkSlice([sliceChange EXCEPT !.removeAt = Append(@, i)])
  /\ UNCHANGED <<scalar, child, map>>

SwapRemoveSliceAt(i) ==
  /\ Edit
  /\ slice' = SwapRemoved(slice, i)
  /\ MarkSlice([sliceChange EXCEPT !.swapRemoveAt = Append(@, i)])
  /\ UNCHANGED <<scalar, child, map>>

-----------------------------------------------------------------------------
(* Maps.                                                                   *)

MarkMap(next, keys) ==
  /\ mark("map")
  /\ mapChange' = Changed(mapChange, next)
  /\ dirtyKeys' = keys
  /\ UNCHANGED sliceChange

\* The keys of elements that the map had are left among the dirty ones.
ReplaceMap(m) ==
  /\ Edit
  /\ map' = m
  /\ MarkMap([NoMapChange EXCEPT !.full = TRUE], dirtyKeys)
  /\ UNCHANGED <<scalar, child, slice>>

ClearMap ==
  /\ Edit
  /\ map # <<>>
  /\ map' = <<>>
  /\ MarkMap([NoMapChange EXCEPT !.full = TRUE], {})
  /\ UNCHANGED <<scalar, child, slice>>

\* Mutation of PutMap: a key that was deleted before stays deleted.
PutMapStillDeleted(k, v) ==
  /\ Edit
  /\ map' = Put(map, k, v)
  /\ MarkMap([mapChange EXCEPT !.set = Put(@, k, v)], dirtyKeys \cup {k})
  /\ UNCHANGED <<scalar, child, slice>>

\* PutMap; PutMapMany does it for one key after the other.
PutMap(k, v) ==
  /\ Edit
  /\ map' = Put(map, k, v)
  /\ MarkMap([mapChange EXCEPT !.set = Put(@, k, v), !.delete = @ \ {k}],
             dirtyKeys \cup {k})
  /\ UNCHANGED <<scalar, child, slice>>

\* UpdateMap: only the key is marked, and whether or not the element changes.
UpdateMap(k, v) ==
  /\ Edit
  /\ k \in DOMAIN map
  /\ map' = [map EXCEPT ![k] = v]
  /\ MarkMap(mapChange, dirtyKeys \cup {k})
  /\ UNCHANGED <<scalar, child, slice>>

\* Mutation of DelMap: the key of the element stays among the dirty ones.
DelMapOnly(k) ==
  /\ Edit
  /\ k \in DOMAIN map
  /\ map' = Restrict(map, DOMAIN map \ {k})
  /\ MarkMap([mapChange EXCEPT !.set = Restrict(@, DOMAIN @ \ {k}),
                               !.delete = @ \cup {k}],
             dirtyKeys)
  /\ UNCHANGED <<scalar, child, slice>>

\* DelMap; DelMapMany does it for one key after the other.
DelMap(k) ==
  /\ Edit
  /\ k \in DOMAIN map
  /\ map' = Restrict(map, DOMAIN map \ {k})
  /\ MarkMap([mapChange EXCEPT !.set = Restrict(@, DOMAIN @ \ {k}),
                               !.delete = @ \cup {k}],
             dirtyKeys \ {k})
  /\ UNCHANGED <<scalar, child, slice>>

-----------------------------------------------------------------------------
(* The snapshot.                                                           *)

ClearDirty ==
  /\ dirty' = FALSE /\ trace' = {}
  /\ sliceChange' = NoSliceChange /\ mapChange' = NoMapChange
  /\ dirtyKeys' = {}
  /\ child' = IF child = Nil THEN Nil ELSE [child EXCEPT !.dirty = FALSE]

\* NewSnap and ClearDirty, as the caches call them.
Snapshot ==
  /\ Dirty
  /\ stored' = Save
  /\ edits' = 0
  /\ ClearDirty
  /\ UNCHANGED <<scalar, slice, map>>

TrackingNext ==
  \/ Snapshot
  \/ \E v \in Values :
       \/ SetScalar(v) \/ UpdateChild(v) \/ EditChild(v) \/ AppendSlice(v)
       \/ \E i \in DOMAIN slice : SetSliceAt(i, v)
       \/ \E k \in Keys : PutMap(k, v) \/ UpdateMap(k, v)
  \/ \E c \in Child \cup {Nil} : SetChild(c)
  \/ \E s \in Slices : ReplaceSlice(s)
  \/ \E i \in DOMAIN slice : RemoveSliceAt(i) \/ SwapRemoveSliceAt(i)
  \/ \E m \in Maps : ReplaceMap(m)
  \/ ClearMap
  \/ \E k \in Keys : DelMap(k)

TrackingSpec == (\E s \in States : Hydrate(s)) /\ [][TrackingNext]_trackingVars

-----------------------------------------------------------------------------
(* Properties.                                                             *)

\* An entity that differs from its last snapshot is dirty, and every field
\* that differs is among the dirty ones, whichever setter, child or map it
\* was edited through; an entity that nobody has edited since is clean.
DirtyIfEdited ==
  /\ \A f \in Fields : Save[f] # stored[f] => f \in DirtyFields
  /\ DirtyFields # {} <=> Dirty
  /\ edits = 0 => ~Dirty

\* The map that the last snapshot and the trace since then stand for.
MapOfTrace ==
  IF mapChange.full THEN map
  ELSE LET old == DOMAIN stored.map \ mapChange.delete
           new == DOMAIN mapChange.set \cup dirtyKeys
       IN  [k \in old \cup new |->
              IF k \in dirtyKeys THEN map[k]
              ELSE IF k \in DOMAIN mapChange.set THEN mapChange.set[k]
              ELSE stored.map[k]]

\* The trace of a map is enough to bring the last snapshot up to date: with
\* the deleted keys out, and the elements of the dirty keys in, which the
\* map has, it is the map, whatever was put, updated and deleted in between.
MapTraceReplays ==
  ~mapChange.full =>
    /\ dirtyKeys \subseteq DOMAIN map
    /\ MapOfTrace = map

\* What s is after the steps of a log, one after the other.
Replay(Step(_, _), s, log) ==
  LET state[n \in 0 .. Len(log)] ==
        IF n = 0 THEN s ELSE Step(state[n - 1], log[n])
  IN  state[Len(log)]

\* The slice that the last snapshot and the trace since then stand for.
SliceOfTrace ==
  LET c == sliceChange
      long == stored.slice \o c.append
  IN  IF c.full THEN slice
      ELSE IF c.removeAt # <<>> THEN Replay(RemoveAt, stored.slice, c.removeAt)
      ELSE IF c.swapRemoveAt # <<>>
           THEN Replay(SwapRemoved, stored.slice, c.swapRemoveAt)
      ELSE [i \in DOMAIN long |-> IF i \in DOMAIN c.set THEN c.set[i] ELSE long[i]]

\* How many of the logs of a slice are in use: the logs do not say in which
\* order their entries were made.
Kinds ==
  (IF sliceChange.append = <<>> /\ sliceChange.set = <<>> THEN 0 ELSE 1)
  + (IF sliceChange.removeAt = <<>> THEN 0 ELSE 1)
  + (IF sliceChange.swapRemoveAt = <<>> THEN 0 ELSE 1)

\* The trace of a slice is enough too, as long as elements were only added
\* and set, only removed, or only removed by swapping.
SliceTraceReplays == Kinds <= 1 => SliceOfTrace = slice

\* The trace of a collection brings the last snapshot up to date.
TraceReplays == MapTraceReplays /\ SliceTraceReplays
=============================================================================
