------------------------ MODULE EntityTracking_proofs -----------------------
(***************************************************************************)
(* Proofs about EntityTracking, for any keys, values and bounds: an edit   *)
(* leaves its mark, and the trace of a map or of a slice brings the last   *)
(* snapshot up to date.                                                    *)
(***************************************************************************)
EXTENDS EntityTracking, SequenceTheorems, WellFoundedInduction, TLAPS

\* The trace and the dirty flag of the entity itself agree.
DirtyInv == DirtyIfEdited /\ (trace # {} <=> dirty)

\* A key that has left no trace is where the last snapshot has it.
MapInv ==
  ~mapChange.full =>
    /\ DOMAIN mapChange.set \subseteq dirtyKeys
    /\ dirtyKeys \subseteq DOMAIN map
    /\ mapChange.delete \cap DOMAIN map = {}
    /\ \A k \in Keys \ (dirtyKeys \cup mapChange.delete) :
         /\ k \in DOMAIN map <=> k \in DOMAIN stored.map
         /\ k \in DOMAIN map => map[k] = stored.map[k]

\* f holds what s is after each of the steps of a log.
RemoveRun(f, s, log) ==
  f = [n \in 0 .. Len(log) |->
         IF n = 0 THEN s ELSE RemoveAt(f[n - 1], log[n])]

SwapRun(f, s, log) ==
  f = [n \in 0 .. Len(log) |->
         IF n = 0 THEN s ELSE SwapRemoved(f[n - 1], log[n])]

\* A slice without removals is the last snapshot with what was added, and
\* what was set in it.
SetsReplay ==
  sliceChange.removeAt = <<>> /\ sliceChange.swapRemoveAt = <<>> =>
    /\ Len(slice) = Len(stored.slice) + Len(sliceChange.append)
    /\ DOMAIN sliceChange.set \subseteq 1 .. Len(slice)
    /\ \A i \in 1 .. Len(slice) :
         slice[i] = IF i \in DOMAIN sliceChange.set THEN sliceChange.set[i]
                    ELSE (stored.slice \o sliceChange.append)[i]

\* A slice with nothing but removals is where these lead.
OnlyRemoved ==
  /\ sliceChange.append = <<>> /\ sliceChange.set = <<>>
  /\ sliceChange.swapRemoveAt = <<>>

RemovalsReplay ==
  OnlyRemoved =>
    \E f : /\ RemoveRun(f, stored.slice, sliceChange.removeAt)
          /\ f[Len(sliceChange.removeAt)] = slice

OnlySwapped ==
  /\ sliceChange.append = <<>> /\ sliceChange.set = <<>>
  /\ sliceChange.removeAt = <<>>

SwapsReplay ==
  OnlySwapped =>
    \E f : /\ SwapRun(f, stored.slice, sliceChange.swapRemoveAt)
          /\ f[Len(sliceChange.swapRemoveAt)] = slice

SliceInv ==
  ~sliceChange.full => SetsReplay /\ RemovalsReplay /\ SwapsReplay

USE DEF trackingVars, fields, marks

-----------------------------------------------------------------------------
(* Partial functions and slices.                                           *)

LEMMA PartialFacts ==
  ASSUME NEW S, NEW f \in Partial(S)
  PROVE  /\ DOMAIN f \subseteq S
         /\ f = [x \in DOMAIN f |-> f[x]]
         /\ \A x \in DOMAIN f : f[x] \in Values
BY DEF Partial

LEMMA EmptyIsPartial ==
  ASSUME NEW S
  PROVE  <<>> \in Partial(S) /\ DOMAIN <<>> = {}
BY DEF Partial

LEMMA PutIsPartial ==
  ASSUME NEW S, NEW f \in Partial(S), NEW x \in S, NEW y \in Values
  PROVE  Put(f, x, y) \in Partial(S)
<1>1. Put(f, x, y) \in [DOMAIN f \cup {x} -> Values]
  BY PartialFacts DEF Put
<1>2. DOMAIN f \cup {x} \in SUBSET S
  BY PartialFacts
<1> QED BY <1>1, <1>2 DEF Partial

LEMMA RestrictFacts ==
  ASSUME NEW S, NEW f \in Partial(S), NEW x
  PROVE  /\ Restrict(f, DOMAIN f \ {x}) \in Partial(S)
         /\ DOMAIN Restrict(f, DOMAIN f \ {x}) = DOMAIN f \ {x}
         /\ \A z \in DOMAIN f \ {x} :
              Restrict(f, DOMAIN f \ {x})[z] = f[z]
<1>1. Restrict(f, DOMAIN f \ {x}) \in [DOMAIN f \ {x} -> Values]
  BY PartialFacts DEF Restrict
<1>2. DOMAIN f \ {x} \in SUBSET S
  BY PartialFacts
<1> QED BY <1>1, <1>2 DEF Restrict, Partial

LEMMA SlicesAreShort ==
  /\ \A s \in Slices : s \in Seq(Values) /\ Len(s) <= MaxLen
  /\ \A s \in Seq(Values) : Len(s) <= MaxLen => s \in Slices
<1>1. Slices = UNION {[1 .. n -> Values] : n \in 0 .. MaxLen}
  BY DEF Slices, BoundedSeq, SeqOf
<1>2. ASSUME NEW s \in Slices PROVE s \in Seq(Values) /\ Len(s) <= MaxLen
  <2>1. PICK n \in 0 .. MaxLen : s \in [1 .. n -> Values]
    BY <1>1
  <2>2. n \in Nat /\ n <= MaxLen
    BY <2>1, TrackingAssumption
  <2> QED BY <2>1, <2>2
<1>3. ASSUME NEW s \in Seq(Values), Len(s) <= MaxLen PROVE s \in Slices
  <2>1. Len(s) \in 0 .. MaxLen /\ s \in [1 .. Len(s) -> Values]
    BY <1>3, TrackingAssumption, LenProperties
  <2> QED BY <1>1, <2>1
<1> QED BY <1>2, <1>3

LEMMA RemoveFacts ==
  ASSUME NEW s \in Slices, NEW i \in DOMAIN s
  PROVE  /\ RemoveAt(s, i) \in Slices /\ SwapRemoved(s, i) \in Slices
         /\ i \in Indices
<1>1. /\ s \in Seq(Values) /\ Len(s) \in Nat /\ Len(s) <= MaxLen
      /\ i \in 1 .. Len(s) /\ MaxLen \in Nat
  BY SlicesAreShort, LenProperties, TrackingAssumption
<1>2. RemoveAt(s, i) \in Slices
  <2> DEFINE l == SubSeq(s, 1, i - 1)
             r == SubSeq(s, i + 1, Len(s))
  <2>1. l \in Seq(Values) /\ Len(l) = i - 1
    BY <1>1, SubSeqProperties
  <2>2. r \in Seq(Values) /\ Len(r) = Len(s) - i
    BY <1>1, SubSeqProperties
  <2>3. l \o r \in Seq(Values) /\ Len(l \o r) = (i - 1) + (Len(s) - i)
    BY <2>1, <2>2, ConcatProperties
  <2>4. Len(l \o r) <= MaxLen
    <3> HIDE DEF l, r
    <3> QED BY <1>1, <2>3
  <2> QED BY <2>3, <2>4, SlicesAreShort DEF RemoveAt
<1>3. SwapRemoved(s, i) \in Slices
  <2> DEFINE t == [s EXCEPT ![i] = Last(s)]
  <2>1. Last(s) \in Values
    BY <1>1 DEF Last
  <2>2. t \in Seq(Values) /\ Len(t) = Len(s)
    BY <1>1, <2>1, ExceptSeq
  <2>3. /\ SubSeq(t, 1, Len(t) - 1) \in Seq(Values)
        /\ Len(SubSeq(t, 1, Len(t) - 1)) = Len(s) - 1
    BY <1>1, <2>2, SubSeqProperties
  <2>4. Len(s) - 1 <= MaxLen
    BY <1>1
  <2> QED BY <2>3, <2>4, SlicesAreShort DEF SwapRemoved, Front
<1> QED BY <1>1, <1>2, <1>3 DEF Indices

-----------------------------------------------------------------------------
(* Types.                                                                  *)

LEMMA ChangeTypes ==
  ASSUME TrackingTypeOK
  PROVE  /\ NoSliceChange \in [full : BOOLEAN, set : Partial(Indices),
                     append : Seq(Values), removeAt : Seq(Indices),
                     swapRemoveAt : Seq(Indices)]
         /\ NoMapChange \in [full : BOOLEAN, set : Maps, delete : SUBSET Keys]
         /\ DOMAIN NoMapChange.set \cap NoMapChange.delete = {}
  BY EmptyIsPartial DEF NoSliceChange, NoMapChange, Maps

LEMMA SaveIsState ==
  ASSUME TrackingTypeOK
  PROVE  Save \in States
BY TrackingAssumption DEF TrackingTypeOK, Save, States, Child

LEMMA HydrateTypes ==
  ASSUME NEW s \in States, Hydrate(s)
  PROVE  TrackingTypeOK
<1>1. /\ NoSliceChange \in [full : BOOLEAN, set : Partial(Indices),
                     append : Seq(Values), removeAt : Seq(Indices),
                     swapRemoveAt : Seq(Indices)]
      /\ NoMapChange \in [full : BOOLEAN, set : Maps, delete : SUBSET Keys]
      /\ DOMAIN NoMapChange.set \cap NoMapChange.delete = {}
  BY EmptyIsPartial DEF NoSliceChange, NoMapChange, Maps
<1> QED BY <1>1 DEF Hydrate, TrackingTypeOK, States, Child

\* What every edit does to the variables of the snapshot.
LEMMA EditTypes ==
  ASSUME TrackingTypeOK, Edit
  PROVE  stored' \in States /\ edits' \in Nat
BY DEF TrackingTypeOK, Edit

LEMMA SliceEditTypes ==
  ASSUME TrackingTypeOK, Edit, UNCHANGED <<scalar, child, map>>,
         slice' \in Slices,
         NEW next \in [full : BOOLEAN, set : Partial(Indices),
                       append : Seq(Values), removeAt : Seq(Indices),
                       swapRemoveAt : Seq(Indices)],
         MarkSlice(next)
  PROVE  TrackingTypeOK'
BY EditTypes DEF TrackingTypeOK, MarkSlice, mark, Changed, Fields

LEMMA MapEditTypes ==
  ASSUME TrackingTypeOK, Edit, UNCHANGED <<scalar, child, slice>>,
         map' \in Maps,
         NEW next \in [full : BOOLEAN, set : Maps, delete : SUBSET Keys],
         DOMAIN next.set \cap next.delete = {},
         NEW keys \in SUBSET Keys, MarkMap(next, keys)
  PROVE  TrackingTypeOK'
BY EditTypes DEF TrackingTypeOK, MarkMap, mark, Changed, Fields

LEMMA TypeStep ==
  ASSUME TrackingTypeOK, [TrackingNext]_trackingVars
  PROVE  TrackingTypeOK'
<1> USE TrackingAssumption
<1>1. CASE Snapshot
  BY <1>1, SaveIsState, ChangeTypes DEF TrackingTypeOK, Snapshot, ClearDirty, Child
<1>2. ASSUME NEW v \in Values,
             SetScalar(v) \/ UpdateChild(v) \/ EditChild(v)
      PROVE  TrackingTypeOK'
  <2>1. stored' \in States /\ edits' \in Nat
    BY <1>2, EditTypes DEF SetScalar, UpdateChild, EditChild
  <2>2. CASE SetScalar(v)
    BY <2>1, <2>2 DEF TrackingTypeOK, SetScalar, OnlyMarked, mark, Fields
  <2>3. CASE UpdateChild(v)
    BY <2>1, <2>3 DEF TrackingTypeOK, UpdateChild, Edited, Child, OnlyMarked, mark,
                      Fields
  <2>4. CASE EditChild(v)
    BY <2>1, <2>4 DEF TrackingTypeOK, EditChild, Edited, Child
  <2> QED BY <1>2, <2>2, <2>3, <2>4
<1>3. ASSUME NEW c \in Child \cup {Nil}, SetChild(c)
      PROVE  TrackingTypeOK'
  <2>1. stored' \in States /\ edits' \in Nat
    BY <1>3, EditTypes DEF SetChild
  <2> QED BY <1>3, <2>1 DEF TrackingTypeOK, SetChild, OnlyMarked, mark, Fields
<1>4. ASSUME NEW s \in Slices, ReplaceSlice(s) PROVE TrackingTypeOK'
  <2>1. [NoSliceChange EXCEPT !.full = TRUE]
          \in [full : BOOLEAN, set : Partial(Indices), append : Seq(Values),
               removeAt : Seq(Indices), swapRemoveAt : Seq(Indices)]
    BY ChangeTypes
  <2> QED BY <1>4, <2>1, SliceEditTypes DEF ReplaceSlice
<1>5. ASSUME NEW v \in Values, AppendSlice(v) PROVE TrackingTypeOK'
  <2>1. slice' \in Slices
    <3>1. slice \in Seq(Values) /\ slice' = Append(slice, v) /\ Len(slice) < MaxLen
      BY <1>5, SlicesAreShort DEF AppendSlice, TrackingTypeOK
    <3>2. Append(slice, v) \in Seq(Values) /\ Len(Append(slice, v)) = Len(slice) + 1
      BY <3>1, AppendProperties
    <3>3. Len(slice) + 1 <= MaxLen
      BY <3>1, LenProperties
    <3> QED BY <3>1, <3>2, <3>3, SlicesAreShort
  <2>2. [sliceChange EXCEPT !.append = Append(@, v)]
          \in [full : BOOLEAN, set : Partial(Indices), append : Seq(Values),
               removeAt : Seq(Indices), swapRemoveAt : Seq(Indices)]
    BY AppendProperties DEF TrackingTypeOK
  <2> QED BY <1>5, <2>1, <2>2, SliceEditTypes DEF AppendSlice
<1>6. ASSUME NEW v \in Values, NEW i \in DOMAIN slice, SetSliceAt(i, v)
      PROVE  TrackingTypeOK'
  <2>1. slice \in Seq(Values) /\ i \in 1 .. Len(slice) /\ i \in Indices
    BY SlicesAreShort, RemoveFacts, LenProperties DEF TrackingTypeOK
  <2>2. slice' \in Slices
    <3>1. slice' = [slice EXCEPT ![i] = v] /\ Len(slice) <= MaxLen
      BY <1>6, SlicesAreShort DEF SetSliceAt, TrackingTypeOK
    <3>2. /\ [slice EXCEPT ![i] = v] \in Seq(Values)
          /\ Len([slice EXCEPT ![i] = v]) = Len(slice)
      BY <2>1, ExceptSeq
    <3> QED BY <3>1, <3>2, SlicesAreShort
  <2>3. Put(sliceChange.set, i, v) \in Partial(Indices)
    BY <2>1, PutIsPartial DEF TrackingTypeOK
  <2>4. [sliceChange EXCEPT !.set = Put(@, i, v)]
          \in [full : BOOLEAN, set : Partial(Indices), append : Seq(Values),
               removeAt : Seq(Indices), swapRemoveAt : Seq(Indices)]
    BY <2>3 DEF TrackingTypeOK
  <2> QED BY <1>6, <2>2, <2>4, SliceEditTypes DEF SetSliceAt
<1>7. ASSUME NEW i \in DOMAIN slice, RemoveSliceAt(i) \/ SwapRemoveSliceAt(i)
      PROVE  TrackingTypeOK'
  <2>1. slice \in Slices /\ i \in Indices
    BY RemoveFacts DEF TrackingTypeOK
  <2>2. slice' \in Slices
    BY <1>7, <2>1, RemoveFacts DEF RemoveSliceAt, SwapRemoveSliceAt
  <2>3. /\ [sliceChange EXCEPT !.removeAt = Append(@, i)]
             \in [full : BOOLEAN, set : Partial(Indices), append : Seq(Values),
                  removeAt : Seq(Indices), swapRemoveAt : Seq(Indices)]
        /\ [sliceChange EXCEPT !.swapRemoveAt = Append(@, i)]
             \in [full : BOOLEAN, set : Partial(Indices), append : Seq(Values),
                  removeAt : Seq(Indices), swapRemoveAt : Seq(Indices)]
    BY <2>1, AppendProperties DEF TrackingTypeOK
  <2> QED BY <1>7, <2>2, <2>3, SliceEditTypes DEF RemoveSliceAt, SwapRemoveSliceAt
<1>8. ASSUME NEW m \in Maps, ReplaceMap(m) PROVE TrackingTypeOK'
  <2> DEFINE next == [NoMapChange EXCEPT !.full = TRUE]
  <2>1. /\ next \in [full : BOOLEAN, set : Maps, delete : SUBSET Keys]
        /\ DOMAIN next.set \cap next.delete = {}
    BY ChangeTypes DEF NoMapChange
  <2>2. dirtyKeys \in SUBSET Keys
    BY DEF TrackingTypeOK
  <2> HIDE DEF next
  <2>3. MarkMap(next, dirtyKeys)
    BY <1>8 DEF ReplaceMap, next
  <2> QED BY <1>8, <2>1, <2>2, <2>3, MapEditTypes DEF ReplaceMap
<1>9. CASE ClearMap
  <2> DEFINE next == [NoMapChange EXCEPT !.full = TRUE]
  <2>1. /\ next \in [full : BOOLEAN, set : Maps, delete : SUBSET Keys]
        /\ DOMAIN next.set \cap next.delete = {}
    BY ChangeTypes DEF NoMapChange
  <2> HIDE DEF next
  <2>2. MarkMap(next, {})
    BY <1>9 DEF ClearMap, next
  <2>3. map' \in Maps
    BY <1>9, EmptyIsPartial DEF ClearMap, Maps
  <2> QED BY <1>9, <2>1, <2>2, <2>3, MapEditTypes DEF ClearMap
<1>10. ASSUME NEW k \in Keys, NEW v \in Values, PutMap(k, v) PROVE TrackingTypeOK'
  <2> DEFINE next == [mapChange EXCEPT !.set = Put(@, k, v), !.delete = @ \ {k}]
  <2>1. /\ next \in [full : BOOLEAN, set : Maps, delete : SUBSET Keys]
        /\ DOMAIN next.set \cap next.delete = {}
    <3>1. /\ mapChange \in [full : BOOLEAN, set : Maps, delete : SUBSET Keys]
          /\ DOMAIN mapChange.set \cap mapChange.delete = {}
      BY DEF TrackingTypeOK
    <3>2. /\ Put(mapChange.set, k, v) \in Maps
          /\ DOMAIN Put(mapChange.set, k, v) = DOMAIN mapChange.set \cup {k}
      <4> HIDE DEF next
      <4>1. mapChange.set \in Partial(Keys)
        BY <3>1 DEF Maps
      <4>2. /\ Put(mapChange.set, k, v) \in Partial(Keys)
            /\ DOMAIN Put(mapChange.set, k, v) = DOMAIN mapChange.set \cup {k}
        BY <4>1, PutIsPartial DEF Put
      <4> QED BY <4>2 DEF Maps
    <3>3. /\ next.full = mapChange.full
          /\ next.set = Put(mapChange.set, k, v)
          /\ next.delete = mapChange.delete \ {k}
          /\ next \in [full : BOOLEAN, set : Maps, delete : SUBSET Keys]
      BY <3>1, <3>2
    <3> HIDE DEF next
    <3> QED BY <3>1, <3>2, <3>3
  <2>2. map' \in Maps /\ dirtyKeys \cup {k} \in SUBSET Keys
    BY <1>10, PutIsPartial DEF PutMap, Maps, TrackingTypeOK
  <2> HIDE DEF next
  <2>3. MarkMap(next, dirtyKeys \cup {k})
    BY <1>10 DEF PutMap, next
  <2> QED BY <1>10, <2>1, <2>2, <2>3, MapEditTypes DEF PutMap
<1>11. ASSUME NEW k \in Keys, NEW v \in Values, UpdateMap(k, v)
       PROVE  TrackingTypeOK'
  <2>1. map' \in Maps
    <3>1. [map EXCEPT ![k] = v] \in [DOMAIN map -> Values]
      BY PartialFacts DEF TrackingTypeOK, Maps
    <3>2. DOMAIN map \in SUBSET Keys
      BY PartialFacts DEF TrackingTypeOK, Maps
    <3> QED BY <1>11, <3>1, <3>2 DEF UpdateMap, Maps, Partial
  <2>2. /\ mapChange \in [full : BOOLEAN, set : Maps, delete : SUBSET Keys]
        /\ DOMAIN mapChange.set \cap mapChange.delete = {}
        /\ dirtyKeys \cup {k} \in SUBSET Keys
    BY DEF TrackingTypeOK
  <2> QED BY <1>11, <2>1, <2>2, MapEditTypes DEF UpdateMap
<1>12. ASSUME NEW k \in Keys, DelMap(k) PROVE TrackingTypeOK'
  <2> DEFINE next == [mapChange EXCEPT !.set = Restrict(@, DOMAIN @ \ {k}),
                                       !.delete = @ \cup {k}]
  <2>1. /\ next \in [full : BOOLEAN, set : Maps, delete : SUBSET Keys]
        /\ DOMAIN next.set \cap next.delete = {}
    <3> DEFINE rest == Restrict(mapChange.set, DOMAIN mapChange.set \ {k})
    <3>1. /\ mapChange \in [full : BOOLEAN, set : Maps, delete : SUBSET Keys]
          /\ DOMAIN mapChange.set \cap mapChange.delete = {}
      BY DEF TrackingTypeOK
    <3>2. rest \in Maps /\ DOMAIN rest = DOMAIN mapChange.set \ {k}
      BY <3>1, RestrictFacts DEF Maps
    <3> HIDE DEF rest
    <3>3. /\ next.set = rest /\ next.delete = mapChange.delete \cup {k}
          /\ next \in [full : BOOLEAN, set : Maps, delete : SUBSET Keys]
      BY <3>1, <3>2 DEF rest
    <3> HIDE DEF next
    <3> QED BY <3>1, <3>2, <3>3
  <2>2. map' \in Maps /\ dirtyKeys \ {k} \in SUBSET Keys
    BY <1>12, RestrictFacts DEF DelMap, Maps, TrackingTypeOK
  <2> HIDE DEF next
  <2>3. MarkMap(next, dirtyKeys \ {k})
    BY <1>12 DEF DelMap, next
  <2> QED BY <1>12, <2>1, <2>2, <2>3, MapEditTypes DEF DelMap
<1>13. CASE UNCHANGED trackingVars
  BY <1>13 DEF TrackingTypeOK
<1> QED
  BY <1>1, <1>2, <1>3, <1>4, <1>5, <1>6, <1>7, <1>8, <1>9, <1>10, <1>11, <1>12,
     <1>13 DEF TrackingNext

-----------------------------------------------------------------------------
(* Edits leave their marks.                                                *)

\* An edit that marks the field it changes, and changes no other.
LEMMA MarkedEdit ==
  ASSUME TrackingTypeOK, DirtyInv, Edit, NEW f \in Fields, mark(f),
         \A g \in Fields \ {f} : Save'[g] = Save[g],
         f # "child" => UNCHANGED child
  PROVE  DirtyInv'
<1>1. edits' # 0 /\ stored' = stored /\ trace' = trace \cup {f} /\ dirty'
  BY DEF Edit, TrackingTypeOK, mark
<1>2. ASSUME NEW g \in Fields, Save'[g] # stored'[g] PROVE g \in DirtyFields'
  <2>1. CASE g = f
    BY <1>1, <2>1 DEF DirtyFields
  <2>2. CASE g # f
    <3>1. g \in DirtyFields
      BY <1>1, <1>2, <2>2 DEF DirtyInv, DirtyIfEdited
    <3>2. g \in trace \/ (g = "child" /\ ChildDirty)
      BY <3>1 DEF DirtyFields
    <3>3. g = "child" /\ ChildDirty => ChildDirty'
      BY <2>2 DEF ChildDirty
    <3> QED BY <1>1, <3>2, <3>3 DEF DirtyFields
  <2> QED BY <2>1, <2>2
<1>3. DirtyFields' # {} /\ Dirty' /\ trace' # {}
  BY <1>1 DEF DirtyFields, Dirty
<1> QED BY <1>1, <1>2, <1>3 DEF DirtyInv, DirtyIfEdited

LEMMA DirtyStart ==
  ASSUME NEW s \in States, Hydrate(s)
  PROVE  DirtyInv
<1>1. ~dirty /\ trace = {} /\ ~ChildDirty
  BY DEF Hydrate, ChildDirty
<1>2. \A f \in Fields : Save[f] = stored[f]
  <2>1. child \in Child /\ child # Nil /\ child.value = s.child
    <3>1. child = [value |-> s.child, dirty |-> FALSE] /\ s.child \in Values
      BY DEF Hydrate, States
    <3>2. child \in [value : Values, dirty : BOOLEAN]
      BY <3>1
    <3>3. child # Nil
      BY <3>2, TrackingAssumption DEF Child
    <3>4. child.value = s.child
      BY <3>1
    <3> QED BY <3>2, <3>3, <3>4 DEF Child
  <2> QED BY <2>1 DEF Hydrate, States, Save, Fields
<1> QED BY <1>1, <1>2 DEF DirtyInv, DirtyIfEdited, DirtyFields, Dirty

LEMMA DirtyStep ==
  ASSUME TrackingTypeOK, DirtyInv, [TrackingNext]_trackingVars
  PROVE  DirtyInv'
<1> USE TrackingAssumption DEF Fields
<1>1. CASE Snapshot
  <2>1. ~dirty' /\ trace' = {} /\ ~ChildDirty'
    BY <1>1 DEF Snapshot, ClearDirty, ChildDirty, TrackingTypeOK, Child
  <2>2. Save' = Save
    <3>1. CASE child = Nil
      BY <1>1, <3>1 DEF Snapshot, ClearDirty, Save
    <3>2. CASE child # Nil
      <4>1. child \in Child /\ child' = [child EXCEPT !.dirty = FALSE]
        BY <1>1, <3>2 DEF Snapshot, ClearDirty, TrackingTypeOK
      <4>2. child' \in Child /\ child' # Nil /\ child'.value = child.value
        BY <4>1 DEF Child
      <4> QED BY <1>1, <3>2, <4>2 DEF Snapshot, Save
    <3> QED BY <3>1, <3>2
  <2> QED BY <1>1, <2>1, <2>2 DEF Snapshot, DirtyInv, DirtyIfEdited, DirtyFields, Dirty
<1>2. ASSUME NEW v \in Values, SetScalar(v) PROVE DirtyInv'
  BY <1>2, MarkedEdit DEF SetScalar, OnlyMarked, Save
<1>3. ASSUME NEW v \in Values, UpdateChild(v) PROVE DirtyInv'
  BY <1>3, MarkedEdit DEF UpdateChild, OnlyMarked, Save
<1>4. ASSUME NEW c, SetChild(c) PROVE DirtyInv'
  BY <1>4, MarkedEdit DEF SetChild, OnlyMarked, Save
<1>5. ASSUME NEW v \in Values, EditChild(v) PROVE DirtyInv'
  <2>1. /\ ChildDirty' /\ edits' # 0
        /\ UNCHANGED <<scalar, slice, map, dirty, trace, stored>>
    <3>1. /\ child' = [value |-> v, dirty |-> child.dirty \/ child.value # v]
          /\ child.value # v /\ child \in Child
      BY <1>5 DEF EditChild, Edited, TrackingTypeOK
    <3>2. child' = [value |-> v, dirty |-> TRUE]
      BY <3>1 DEF Child
    <3>3. child' \in Child /\ child' # Nil /\ child'.dirty
      <4>1. child' \in Child /\ child'.dirty = TRUE
        BY <3>2 DEF Child
      <4> QED BY <4>1
    <3>4. edits' # 0 /\ UNCHANGED <<scalar, slice, map, dirty, trace, stored>>
      BY <1>5 DEF EditChild, Edit, TrackingTypeOK
    <3> QED BY <3>3, <3>4 DEF ChildDirty
  <2>2. ASSUME NEW g \in Fields, Save'[g] # stored'[g] PROVE g \in DirtyFields'
    <3>1. CASE g = "child"
      BY <2>1, <3>1 DEF DirtyFields
    <3>2. CASE g # "child"
      <4>1. Save'[g] = Save[g]
        BY <2>1, <3>2 DEF Save
      <4>2. g \in DirtyFields
        BY <2>1, <2>2, <4>1 DEF DirtyInv, DirtyIfEdited
      <4> QED BY <2>1, <3>2, <4>2 DEF DirtyFields
    <3> QED BY <3>1, <3>2
  <2>3. DirtyFields' # {} /\ Dirty'
    BY <2>1 DEF DirtyFields, Dirty
  <2> QED BY <2>1, <2>2, <2>3 DEF DirtyInv, DirtyIfEdited
<1>6. ASSUME NEW s, ReplaceSlice(s) PROVE DirtyInv'
  BY <1>6, MarkedEdit DEF ReplaceSlice, MarkSlice, Save
<1>7. ASSUME NEW v \in Values, AppendSlice(v) PROVE DirtyInv'
  BY <1>7, MarkedEdit DEF AppendSlice, MarkSlice, Save
<1>8. ASSUME NEW v \in Values, NEW i, SetSliceAt(i, v) PROVE DirtyInv'
  BY <1>8, MarkedEdit DEF SetSliceAt, MarkSlice, Save
<1>9. ASSUME NEW i, RemoveSliceAt(i) \/ SwapRemoveSliceAt(i) PROVE DirtyInv'
  BY <1>9, MarkedEdit DEF RemoveSliceAt, SwapRemoveSliceAt, MarkSlice, Save
<1>10. ASSUME NEW m, ReplaceMap(m) PROVE DirtyInv'
  BY <1>10, MarkedEdit DEF ReplaceMap, MarkMap, Save
<1>11. CASE ClearMap
  BY <1>11, MarkedEdit DEF ClearMap, MarkMap, Save
<1>12. ASSUME NEW k \in Keys, NEW v \in Values, PutMap(k, v) \/ UpdateMap(k, v)
       PROVE  DirtyInv'
  BY <1>12, MarkedEdit DEF PutMap, UpdateMap, MarkMap, Save
<1>13. ASSUME NEW k \in Keys, DelMap(k) PROVE DirtyInv'
  BY <1>13, MarkedEdit DEF DelMap, MarkMap, Save
<1>14. CASE UNCHANGED trackingVars
  BY <1>14 DEF DirtyInv, DirtyIfEdited, DirtyFields, Dirty, ChildDirty, Save
<1> QED
  BY <1>1, <1>2, <1>3, <1>4, <1>5, <1>6, <1>7, <1>8, <1>9, <1>10, <1>11, <1>12,
     <1>13, <1>14 DEF TrackingNext

-----------------------------------------------------------------------------
(* The trace of a map.                                                     *)

LEMMA MapStart ==
  ASSUME NEW s \in States, Hydrate(s)
  PROVE  MapInv
BY EmptyIsPartial DEF Hydrate, MapInv, NoMapChange, States

LEMMA MapUntouched ==
  ASSUME MapInv, UNCHANGED <<map, mapChange, dirtyKeys, stored>>
  PROVE  MapInv'
BY DEF MapInv

LEMMA MapStep ==
  ASSUME TrackingTypeOK, MapInv, [TrackingNext]_trackingVars
  PROVE  MapInv'
<1>0. mapChange \in [full : BOOLEAN, set : Maps, delete : SUBSET Keys]
  BY DEF TrackingTypeOK
<1>1. CASE Snapshot
  <2>1. /\ mapChange' = NoMapChange /\ dirtyKeys' = {}
        /\ map' = map /\ stored'.map = map
    BY <1>1 DEF Snapshot, ClearDirty, Save
  <2> QED BY <2>1, EmptyIsPartial DEF MapInv, NoMapChange
<1>2. ASSUME NEW v, SetScalar(v) \/ UpdateChild(v) \/ EditChild(v) \/ SetChild(v)
      PROVE  MapInv'
  BY <1>2, MapUntouched DEF SetScalar, UpdateChild, EditChild, SetChild, OnlyMarked, Edit
<1>3. ASSUME NEW s, NEW i,
             ReplaceSlice(s) \/ AppendSlice(s) \/ SetSliceAt(i, s)
               \/ RemoveSliceAt(i) \/ SwapRemoveSliceAt(i)
      PROVE  MapInv'
  BY <1>3, MapUntouched DEF ReplaceSlice, AppendSlice, SetSliceAt, RemoveSliceAt,
     SwapRemoveSliceAt, MarkSlice, Edit
<1>4. ASSUME NEW m, ReplaceMap(m) \/ ClearMap PROVE MapInv'
  <2>1. mapChange'.full
    BY <1>4 DEF ReplaceMap, ClearMap, MarkMap, Changed, NoMapChange
  <2> QED BY <2>1 DEF MapInv
<1>5. ASSUME NEW k \in Keys, NEW v \in Values, PutMap(k, v) PROVE MapInv'
  <2>1. CASE mapChange.full
    BY <1>5, <2>1 DEF PutMap, MarkMap, Changed, MapInv
  <2>2. CASE ~mapChange.full
    <3>1. /\ map' = Put(map, k, v) /\ stored' = stored
          /\ mapChange' = [mapChange EXCEPT !.set = Put(@, k, v), !.delete = @ \ {k}]
          /\ dirtyKeys' = dirtyKeys \cup {k}
      BY <1>5, <2>2 DEF PutMap, MarkMap, Changed, Edit
    <3>2. /\ mapChange'.set = Put(mapChange.set, k, v)
          /\ mapChange'.delete = mapChange.delete \ {k}
      BY <1>0, <3>1
    <3>3. /\ DOMAIN map' = DOMAIN map \cup {k}
          /\ \A z \in DOMAIN map \ {k} : map'[z] = map[z]
      BY <3>1 DEF Put
    <3>4. DOMAIN mapChange'.set = DOMAIN mapChange.set \cup {k}
      BY <3>2 DEF Put
    <3> QED BY <2>2, <3>1, <3>2, <3>3, <3>4 DEF MapInv
  <2> QED BY <2>1, <2>2
<1>6. ASSUME NEW k \in Keys, NEW v \in Values, UpdateMap(k, v) PROVE MapInv'
  <2>1. /\ DOMAIN map' = DOMAIN map /\ stored' = stored /\ k \in DOMAIN map
        /\ \A z \in DOMAIN map \ {k} : map'[z] = map[z]
        /\ mapChange' = mapChange /\ dirtyKeys' = dirtyKeys \cup {k}
    BY <1>6 DEF UpdateMap, MarkMap, Changed, Edit
  <2> QED BY <2>1 DEF MapInv
<1>7. ASSUME NEW k \in Keys, DelMap(k) PROVE MapInv'
  <2>1. CASE mapChange.full
    BY <1>7, <2>1 DEF DelMap, MarkMap, Changed, MapInv
  <2>2. CASE ~mapChange.full
    <3>1. /\ map' = Restrict(map, DOMAIN map \ {k}) /\ stored' = stored
          /\ mapChange' = [mapChange EXCEPT !.set = Restrict(@, DOMAIN @ \ {k}),
                                            !.delete = @ \cup {k}]
          /\ dirtyKeys' = dirtyKeys \ {k}
      BY <1>7, <2>2 DEF DelMap, MarkMap, Changed, Edit
    <3>2. /\ mapChange'.set = Restrict(mapChange.set, DOMAIN mapChange.set \ {k})
          /\ mapChange'.delete = mapChange.delete \cup {k}
      BY <1>0, <3>1
    <3>3. /\ DOMAIN map' = DOMAIN map \ {k}
          /\ \A z \in DOMAIN map \ {k} : map'[z] = map[z]
          /\ DOMAIN mapChange'.set = DOMAIN mapChange.set \ {k}
      BY <3>1, <3>2 DEF Restrict
    <3> QED BY <2>2, <3>1, <3>2, <3>3 DEF MapInv
  <2> QED BY <2>1, <2>2
<1>8. CASE UNCHANGED trackingVars
  BY <1>8, MapUntouched
<1> QED BY <1>1, <1>2, <1>3, <1>4, <1>5, <1>6, <1>7, <1>8 DEF TrackingNext

LEMMA MapInvReplays ==
  ASSUME TrackingTypeOK, MapInv
  PROVE  MapTraceReplays
<1> SUFFICES ASSUME ~mapChange.full
             PROVE  dirtyKeys \subseteq DOMAIN map /\ MapOfTrace = map
  BY DEF MapTraceReplays
<1>1. /\ DOMAIN map \subseteq Keys /\ map = [k \in DOMAIN map |-> map[k]]
      /\ DOMAIN stored.map \subseteq Keys
  BY PartialFacts DEF TrackingTypeOK, Maps, States
<1> DEFINE old == DOMAIN stored.map \ mapChange.delete
           new == DOMAIN mapChange.set \cup dirtyKeys
           value(k) == IF k \in dirtyKeys THEN map[k]
                       ELSE IF k \in DOMAIN mapChange.set THEN mapChange.set[k]
                       ELSE stored.map[k]
<1>2. old \cup new = DOMAIN map
  BY <1>1 DEF MapInv
<1>3. \A k \in DOMAIN map : value(k) = map[k]
  BY <1>1 DEF MapInv
<1>4. MapOfTrace = [k \in old \cup new |-> value(k)]
  BY DEF MapOfTrace
<1> HIDE DEF old, new, value
<1>5. MapOfTrace = [k \in DOMAIN map |-> map[k]]
  BY <1>2, <1>3, <1>4
<1> QED BY <1>1, <1>5 DEF MapInv

-----------------------------------------------------------------------------
(* The trace of a slice.                                                   *)

\* Every set of natural numbers with an element has a least one.
LEMMA LeastNatural ==
  ASSUME NEW T, T \subseteq Nat, T # {}
  PROVE  \E m \in T : \A k \in T : m <= k
<1> DEFINE R == {p \in Nat \X Nat : p[1] < p[2]}
<1>1. IsWellFoundedOn(R, Nat)
  BY NatLessThanWellFounded DEF OpToRel
<1> HIDE DEF R
<1>2. PICK m \in T : \A k \in T : ~ (<<k, m>> \in R)
  BY <1>1, WFMin
<1>3. \A k \in T : ~ (k < m)
  BY <1>2 DEF R
<1> QED BY <1>3

\* Two runs that begin together and go on together end together.
LEMMA RunsAgree ==
  ASSUME NEW n \in Nat, NEW f, NEW g, f[0] = g[0],
         \A i \in 1 .. n : f[i - 1] = g[i - 1] => f[i] = g[i]
  PROVE  f[n] = g[n]
<1>1. SUFFICES ASSUME f[n] # g[n] PROVE FALSE
  OBVIOUS
<1> DEFINE T == {i \in 0 .. n : f[i] # g[i]}
<1>2. T \subseteq Nat /\ n \in T
  BY <1>1
<1>3. PICK m \in T : \A k \in T : m <= k
  BY <1>2, LeastNatural
<1>4. m \in 1 .. n /\ m - 1 \notin T /\ f[m] # g[m]
  BY <1>3
<1> QED BY <1>4

\* A run takes one step after the other.
LEMMA RemoveRunSteps ==
  ASSUME NEW s, NEW log, Len(log) \in Nat, NEW f, RemoveRun(f, s, log)
  PROVE  /\ f[0] = s
         /\ \A n \in 1 .. Len(log) : f[n] = RemoveAt(f[n - 1], log[n])
BY DEF RemoveRun

LEMMA SwapRunSteps ==
  ASSUME NEW s, NEW log, Len(log) \in Nat, NEW f, SwapRun(f, s, log)
  PROVE  /\ f[0] = s
         /\ \A n \in 1 .. Len(log) : f[n] = SwapRemoved(f[n - 1], log[n])
BY DEF SwapRun

\* So a run is what Replay computes.
LEMMA RemoveRunReplays ==
  ASSUME NEW s, NEW log, Len(log) \in Nat, NEW f, RemoveRun(f, s, log)
  PROVE  Replay(RemoveAt, s, log) = f[Len(log)]
<1> DEFINE g == CHOOSE h : RemoveRun(h, s, log)
<1>1. RemoveRun(g, s, log)
  BY Zenon
<1>2. Replay(RemoveAt, s, log) = g[Len(log)]
  BY Zenon DEF Replay, RemoveRun
<1> HIDE DEF g
<1>3. g[Len(log)] = f[Len(log)]
  <2>1. f[0] = g[0]
    BY <1>1 DEF RemoveRun
  <2>2. ASSUME NEW i \in 1 .. Len(log), f[i - 1] = g[i - 1]
        PROVE  f[i] = g[i]
    BY <1>1, <2>2 DEF RemoveRun
  <2> QED BY <2>1, <2>2, RunsAgree
<1> QED BY <1>2, <1>3

LEMMA SwapRunReplays ==
  ASSUME NEW s, NEW log, Len(log) \in Nat, NEW f, SwapRun(f, s, log)
  PROVE  Replay(SwapRemoved, s, log) = f[Len(log)]
<1> DEFINE g == CHOOSE h : SwapRun(h, s, log)
<1>1. SwapRun(g, s, log)
  BY Zenon
<1>2. Replay(SwapRemoved, s, log) = g[Len(log)]
  BY Zenon DEF Replay, SwapRun
<1> HIDE DEF g
<1>3. g[Len(log)] = f[Len(log)]
  <2>1. f[0] = g[0]
    BY <1>1 DEF SwapRun
  <2>2. ASSUME NEW i \in 1 .. Len(log), f[i - 1] = g[i - 1]
        PROVE  f[i] = g[i]
    BY <1>1, <2>2 DEF SwapRun
  <2> QED BY <2>1, <2>2, RunsAgree
<1> QED BY <1>2, <1>3

\* A run without steps, and a run that takes one more.
LEMMA EmptyRuns ==
  ASSUME NEW s
  PROVE  /\ \E f : RemoveRun(f, s, <<>>) /\ f[Len(<<>>)] = s
         /\ \E f : SwapRun(f, s, <<>>) /\ f[Len(<<>>)] = s
<1> DEFINE f == [n \in 0 .. 0 |-> s]
<1>1. Len(<<>>) = 0 /\ f[0] = s
  OBVIOUS
<1>2. RemoveRun(f, s, <<>>) /\ SwapRun(f, s, <<>>)
  BY <1>1 DEF RemoveRun, SwapRun
<1> QED BY <1>1, <1>2

LEMMA RemoveRunGrows ==
  ASSUME NEW s, NEW log \in Seq(Indices), NEW f, RemoveRun(f, s, log),
         NEW i \in Indices
  PROVE  \E g : /\ RemoveRun(g, s, Append(log, i))
                /\ g[Len(Append(log, i))] = RemoveAt(f[Len(log)], i)
<1> DEFINE l == Append(log, i)
           n == Len(log)
           g == [m \in 0 .. n + 1 |->
                   IF m = n + 1 THEN RemoveAt(f[n], i) ELSE f[m]]
<1>1. /\ n \in Nat /\ Len(l) = n + 1 /\ l[n + 1] = i
      /\ \A m \in 1 .. n : l[m] = log[m]
  OBVIOUS
<1>2. /\ f[0] = s
      /\ \A m \in 1 .. n : f[m] = RemoveAt(f[m - 1], log[m])
  BY <1>1, RemoveRunSteps
<1> HIDE DEF l, n
<1>3. /\ g[n + 1] = RemoveAt(f[n], i)
      /\ \A m \in 0 .. n : g[m] = f[m]
  BY <1>1
<1>4. g = [m \in 0 .. n + 1 |-> g[m]]
  OBVIOUS
<1> HIDE DEF g
<1>5. \A m \in 0 .. n + 1 :
        g[m] = IF m = 0 THEN s ELSE RemoveAt(g[m - 1], l[m])
  <2>1. g[0] = s
    BY <1>1, <1>2, <1>3
  <2>2. ASSUME NEW m \in 1 .. n PROVE g[m] = RemoveAt(g[m - 1], l[m])
    BY <1>1, <1>2, <1>3
  <2>3. g[n + 1] = RemoveAt(g[(n + 1) - 1], l[n + 1])
    BY <1>1, <1>3
  <2> QED BY <1>1, <2>1, <2>2, <2>3
<1>6. g = [m \in 0 .. Len(l) |->
             IF m = 0 THEN s ELSE RemoveAt(g[m - 1], l[m])]
  BY <1>1, <1>5, <1>4
<1>7. RemoveRun(g, s, l)
  BY <1>6, Zenon DEF RemoveRun
<1>8. g[Len(l)] = RemoveAt(f[n], i)
  BY <1>1, <1>3
<1> QED BY <1>7, <1>8 DEF l, n

LEMMA SwapRunGrows ==
  ASSUME NEW s, NEW log \in Seq(Indices), NEW f, SwapRun(f, s, log),
         NEW i \in Indices
  PROVE  \E g : /\ SwapRun(g, s, Append(log, i))
                /\ g[Len(Append(log, i))] = SwapRemoved(f[Len(log)], i)
<1> DEFINE l == Append(log, i)
           n == Len(log)
           g == [m \in 0 .. n + 1 |->
                   IF m = n + 1 THEN SwapRemoved(f[n], i) ELSE f[m]]
<1>1. /\ n \in Nat /\ Len(l) = n + 1 /\ l[n + 1] = i
      /\ \A m \in 1 .. n : l[m] = log[m]
  OBVIOUS
<1>2. /\ f[0] = s
      /\ \A m \in 1 .. n : f[m] = SwapRemoved(f[m - 1], log[m])
  BY <1>1, SwapRunSteps
<1> HIDE DEF l, n
<1>3. /\ g[n + 1] = SwapRemoved(f[n], i)
      /\ \A m \in 0 .. n : g[m] = f[m]
  BY <1>1
<1>4. g = [m \in 0 .. n + 1 |-> g[m]]
  OBVIOUS
<1> HIDE DEF g
<1>5. \A m \in 0 .. n + 1 :
        g[m] = IF m = 0 THEN s ELSE SwapRemoved(g[m - 1], l[m])
  <2>1. g[0] = s
    BY <1>1, <1>2, <1>3
  <2>2. ASSUME NEW m \in 1 .. n PROVE g[m] = SwapRemoved(g[m - 1], l[m])
    BY <1>1, <1>2, <1>3
  <2>3. g[n + 1] = SwapRemoved(g[(n + 1) - 1], l[n + 1])
    BY <1>1, <1>3
  <2> QED BY <1>1, <2>1, <2>2, <2>3
<1>6. g = [m \in 0 .. Len(l) |->
             IF m = 0 THEN s ELSE SwapRemoved(g[m - 1], l[m])]
  BY <1>1, <1>5, <1>4
<1>7. SwapRun(g, s, l)
  BY <1>6, Zenon DEF SwapRun
<1>8. g[Len(l)] = SwapRemoved(f[n], i)
  BY <1>1, <1>3
<1> QED BY <1>7, <1>8 DEF l, n

\* A slice that nothing has happened to is the one of the snapshot.
LEMMA SliceUnmarked ==
  ASSUME NEW s \in Slices,
         slice' = s, stored'.slice = s, sliceChange' = NoSliceChange
  PROVE  SliceInv'
<1>1. /\ sliceChange'.removeAt = <<>> /\ sliceChange'.swapRemoveAt = <<>>
      /\ sliceChange'.append = <<>> /\ sliceChange'.set = <<>>
  BY DEF NoSliceChange
<1>2. s \in Seq(Values) /\ s \o <<>> = s
  BY SlicesAreShort
<1>3. SetsReplay'
  BY <1>1, <1>2 DEF SetsReplay
<1>4. RemovalsReplay' /\ SwapsReplay'
  BY <1>1, EmptyRuns DEF RemovalsReplay, SwapsReplay
<1> QED BY <1>3, <1>4 DEF SliceInv

LEMMA SliceStart ==
  ASSUME NEW s \in States, Hydrate(s)
  PROVE  SliceInv
<1>1. /\ sliceChange.removeAt = <<>> /\ sliceChange.swapRemoveAt = <<>>
      /\ sliceChange.append = <<>> /\ sliceChange.set = <<>>
      /\ slice = s.slice /\ stored.slice = s.slice
  BY DEF Hydrate, NoSliceChange
<1>2. s.slice \in Seq(Values) /\ s.slice \o <<>> = s.slice
  BY SlicesAreShort DEF States
<1>3. SetsReplay
  BY <1>1, <1>2 DEF SetsReplay
<1>4. RemovalsReplay /\ SwapsReplay
  BY <1>1, EmptyRuns DEF RemovalsReplay, SwapsReplay
<1> QED BY <1>3, <1>4 DEF SliceInv

LEMMA SliceUntouched ==
  ASSUME SliceInv, UNCHANGED <<slice, sliceChange, stored>>
  PROVE  SliceInv'
BY DEF SliceInv, SetsReplay, RemovalsReplay, SwapsReplay, OnlyRemoved,
   OnlySwapped

\* A change of a slice that is replaced as a whole stays one; any other is
\* traced.
LEMMA SliceMarked ==
  ASSUME NEW next, MarkSlice(next), Edit
  PROVE  /\ sliceChange.full => sliceChange' = sliceChange
         /\ ~sliceChange.full => sliceChange' = next
         /\ stored' = stored
BY DEF MarkSlice, Changed, Edit

LEMMA AppendAtTheEnd ==
  ASSUME NEW t \in Seq(Values), NEW a \in Seq(Values), NEW v \in Values
  PROVE  /\ Len(t) \in Nat /\ Len(a) \in Nat
         /\ Len(Append(a, v)) = Len(a) + 1
         /\ (t \o Append(a, v))[Len(t) + Len(a) + 1] = v
         /\ \A i \in 1 .. Len(t) + Len(a) :
              (t \o Append(a, v))[i] = (t \o a)[i]
<1> DEFINE b == Append(a, v)
<1>1. /\ Len(t) \in Nat /\ Len(a) \in Nat
      /\ b \in Seq(Values) /\ Len(b) = Len(a) + 1 /\ b[Len(a) + 1] = v
      /\ \A i \in 1 .. Len(a) : b[i] = a[i]
  OBVIOUS
<1> HIDE DEF b
<1>2. \A i \in 1 .. Len(t) + Len(b) :
        (t \o b)[i] = IF i <= Len(t) THEN t[i] ELSE b[i - Len(t)]
  BY <1>1, ConcatProperties
<1>3. \A i \in 1 .. Len(t) + Len(a) :
        (t \o a)[i] = IF i <= Len(t) THEN t[i] ELSE a[i - Len(t)]
  BY ConcatProperties
<1>4. (t \o b)[Len(t) + Len(a) + 1] = v
  BY <1>1, <1>2
<1>5. \A i \in 1 .. Len(t) + Len(a) : (t \o b)[i] = (t \o a)[i]
  BY <1>1, <1>2, <1>3
<1> QED BY <1>1, <1>4, <1>5 DEF b

LEMMA AppendKeepsReplay ==
  ASSUME TrackingTypeOK, SliceInv, NEW v \in Values, AppendSlice(v)
  PROVE  SliceInv'
<1> DEFINE next == [sliceChange EXCEPT !.append = Append(@, v)]
<1>1. /\ slice' = Append(slice, v) /\ MarkSlice(next) /\ Edit
  BY DEF AppendSlice
<1>2. CASE sliceChange.full
  BY <1>1, <1>2, SliceMarked DEF SliceInv
<1>3. CASE ~sliceChange.full
  <2>1. sliceChange' = next /\ stored' = stored
    BY <1>1, <1>3, SliceMarked
  <2>2. /\ sliceChange'.append = Append(sliceChange.append, v)
        /\ sliceChange'.set = sliceChange.set
        /\ sliceChange'.removeAt = sliceChange.removeAt
        /\ sliceChange'.swapRemoveAt = sliceChange.swapRemoveAt
        /\ sliceChange.append \in Seq(Values)
    BY <2>1 DEF TrackingTypeOK
  <2>3. sliceChange'.append # <<>>
    BY <2>2
  <2>4. RemovalsReplay' /\ SwapsReplay'
    BY <2>3 DEF RemovalsReplay, SwapsReplay, OnlyRemoved, OnlySwapped
  <2>5. SetsReplay'
    <3> DEFINE a == sliceChange.append
               b == Append(a, v)
               t == stored.slice
               n == Len(slice)
    <3>1. SUFFICES ASSUME sliceChange.removeAt = <<>>,
                          sliceChange.swapRemoveAt = <<>>
                   PROVE  /\ Len(slice') = Len(t) + Len(b)
                          /\ DOMAIN sliceChange.set \subseteq 1 .. Len(slice')
                          /\ \A i \in 1 .. Len(slice') :
                               slice'[i] = IF i \in DOMAIN sliceChange.set
                                           THEN sliceChange.set[i]
                                           ELSE (t \o b)[i]
      BY <2>1, <2>2 DEF SetsReplay
    <3>2. /\ n = Len(t) + Len(a)
          /\ DOMAIN sliceChange.set \subseteq 1 .. n
          /\ \A i \in 1 .. n :
               slice[i] = IF i \in DOMAIN sliceChange.set
                          THEN sliceChange.set[i] ELSE (t \o a)[i]
      BY <1>3, <3>1 DEF SliceInv, SetsReplay
    <3>3. slice \in Seq(Values) /\ t \in Seq(Values) /\ a \in Seq(Values)
      BY <2>2, SlicesAreShort DEF TrackingTypeOK, States
    <3>4. /\ n \in Nat /\ Len(slice') = n + 1 /\ slice'[n + 1] = v
          /\ \A i \in 1 .. n : slice'[i] = slice[i]
      BY <1>1, <3>3
    <3>5. /\ Len(t) \in Nat /\ Len(a) \in Nat /\ Len(b) = Len(a) + 1
          /\ (t \o b)[Len(t) + Len(a) + 1] = v
          /\ \A i \in 1 .. Len(t) + Len(a) : (t \o b)[i] = (t \o a)[i]
      BY <3>3, AppendAtTheEnd
    <3> HIDE DEF a, b, t, n
    <3> QED BY <3>2, <3>4, <3>5
  <2> QED BY <2>4, <2>5 DEF SliceInv
<1> QED BY <1>2, <1>3

LEMMA SetKeepsReplay ==
  ASSUME TrackingTypeOK, SliceInv, NEW v \in Values, NEW j \in DOMAIN slice,
         SetSliceAt(j, v)
  PROVE  SliceInv'
<1> DEFINE next == [sliceChange EXCEPT !.set = Put(@, j, v)]
<1>1. /\ slice' = [slice EXCEPT ![j] = v] /\ MarkSlice(next) /\ Edit
  BY DEF SetSliceAt
<1>2. CASE sliceChange.full
  BY <1>1, <1>2, SliceMarked DEF SliceInv
<1>3. CASE ~sliceChange.full
  <2>1. sliceChange' = next /\ stored' = stored
    BY <1>1, <1>3, SliceMarked
  <2>2. /\ sliceChange'.set = Put(sliceChange.set, j, v)
        /\ sliceChange'.append = sliceChange.append
        /\ sliceChange'.removeAt = sliceChange.removeAt
        /\ sliceChange'.swapRemoveAt = sliceChange.swapRemoveAt
    BY <2>1 DEF TrackingTypeOK
  <2>3. /\ DOMAIN sliceChange'.set = DOMAIN sliceChange.set \cup {j}
        /\ sliceChange'.set[j] = v
        /\ \A i \in DOMAIN sliceChange.set \ {j} :
             sliceChange'.set[i] = sliceChange.set[i]
    BY <2>2 DEF Put
  <2>4. sliceChange'.set # <<>>
    BY <2>3
  <2>5. RemovalsReplay' /\ SwapsReplay'
    BY <2>4 DEF RemovalsReplay, SwapsReplay, OnlyRemoved, OnlySwapped
  <2>6. SetsReplay'
    <3> DEFINE l == stored.slice \o sliceChange.append
               n == Len(slice)
    <3>1. SUFFICES ASSUME sliceChange.removeAt = <<>>,
                          sliceChange.swapRemoveAt = <<>>
                   PROVE  /\ Len(slice')
                               = Len(stored.slice) + Len(sliceChange.append)
                          /\ DOMAIN sliceChange'.set \subseteq 1 .. Len(slice')
                          /\ \A i \in 1 .. Len(slice') :
                               slice'[i] = IF i \in DOMAIN sliceChange'.set
                                           THEN sliceChange'.set[i] ELSE l[i]
      BY <2>1, <2>2 DEF SetsReplay
    <3>2. /\ n = Len(stored.slice) + Len(sliceChange.append)
          /\ DOMAIN sliceChange.set \subseteq 1 .. n
          /\ \A i \in 1 .. n :
               slice[i] = IF i \in DOMAIN sliceChange.set
                          THEN sliceChange.set[i] ELSE l[i]
      BY <1>3, <3>1 DEF SliceInv, SetsReplay
    <3>3. slice \in Seq(Values)
      BY SlicesAreShort DEF TrackingTypeOK
    <3>4. /\ j \in 1 .. n /\ Len(slice') = n /\ slice'[j] = v
          /\ \A i \in (1 .. n) \ {j} : slice'[i] = slice[i]
      BY <1>1, <3>3
    <3> HIDE DEF l, n
    <3> QED BY <2>3, <3>2, <3>4
  <2> QED BY <2>5, <2>6 DEF SliceInv
<1> QED BY <1>2, <1>3

LEMMA RemoveKeepsReplay ==
  ASSUME TrackingTypeOK, SliceInv, NEW i \in DOMAIN slice, RemoveSliceAt(i)
  PROVE  SliceInv'
<1> DEFINE next == [sliceChange EXCEPT !.removeAt = Append(@, i)]
<1>1. /\ slice' = RemoveAt(slice, i) /\ MarkSlice(next) /\ Edit
  BY DEF RemoveSliceAt
<1>2. CASE sliceChange.full
  BY <1>1, <1>2, SliceMarked DEF SliceInv
<1>3. CASE ~sliceChange.full
  <2>1. sliceChange' = next /\ stored' = stored
    BY <1>1, <1>3, SliceMarked
  <2>2. /\ sliceChange'.removeAt = Append(sliceChange.removeAt, i)
        /\ sliceChange'.set = sliceChange.set
        /\ sliceChange'.append = sliceChange.append
        /\ sliceChange'.swapRemoveAt = sliceChange.swapRemoveAt
        /\ sliceChange.removeAt \in Seq(Indices)
        /\ i \in Indices
    BY <2>1, RemoveFacts DEF TrackingTypeOK
  <2>3. sliceChange'.removeAt # <<>>
    BY <2>2
  <2>4. SetsReplay' /\ SwapsReplay'
    BY <2>3 DEF SetsReplay, SwapsReplay, OnlySwapped
  <2>5. RemovalsReplay'
    <3>1. SUFFICES ASSUME OnlyRemoved
                   PROVE  \E g :
                            /\ RemoveRun(g, stored.slice, sliceChange'.removeAt)
                            /\ g[Len(sliceChange'.removeAt)] = slice'
      BY <2>1, <2>2 DEF RemovalsReplay, OnlyRemoved
    <3>2. PICK f : /\ RemoveRun(f, stored.slice, sliceChange.removeAt)
                   /\ f[Len(sliceChange.removeAt)] = slice
      BY <1>3, <3>1 DEF SliceInv, RemovalsReplay
    <3>3. \E g : /\ RemoveRun(g, stored.slice, Append(sliceChange.removeAt, i))
                 /\ g[Len(Append(sliceChange.removeAt, i))]
                      = RemoveAt(f[Len(sliceChange.removeAt)], i)
      BY <2>2, <3>2, RemoveRunGrows
    <3> QED BY <1>1, <2>2, <3>2, <3>3, Zenon
  <2> QED BY <2>4, <2>5 DEF SliceInv
<1> QED BY <1>2, <1>3

LEMMA SwapKeepsReplay ==
  ASSUME TrackingTypeOK, SliceInv, NEW i \in DOMAIN slice,
         SwapRemoveSliceAt(i)
  PROVE  SliceInv'
<1> DEFINE next == [sliceChange EXCEPT !.swapRemoveAt = Append(@, i)]
<1>1. /\ slice' = SwapRemoved(slice, i) /\ MarkSlice(next) /\ Edit
  BY DEF SwapRemoveSliceAt
<1>2. CASE sliceChange.full
  BY <1>1, <1>2, SliceMarked DEF SliceInv
<1>3. CASE ~sliceChange.full
  <2>1. sliceChange' = next /\ stored' = stored
    BY <1>1, <1>3, SliceMarked
  <2>2. /\ sliceChange'.swapRemoveAt = Append(sliceChange.swapRemoveAt, i)
        /\ sliceChange'.set = sliceChange.set
        /\ sliceChange'.append = sliceChange.append
        /\ sliceChange'.removeAt = sliceChange.removeAt
        /\ sliceChange.swapRemoveAt \in Seq(Indices)
        /\ i \in Indices
    BY <2>1, RemoveFacts DEF TrackingTypeOK
  <2>3. sliceChange'.swapRemoveAt # <<>>
    BY <2>2
  <2>4. SetsReplay' /\ RemovalsReplay'
    BY <2>3 DEF SetsReplay, RemovalsReplay, OnlyRemoved
  <2>5. SwapsReplay'
    <3>1. SUFFICES ASSUME OnlySwapped
                   PROVE  \E g :
                            /\ SwapRun(g, stored.slice,
                                       sliceChange'.swapRemoveAt)
                            /\ g[Len(sliceChange'.swapRemoveAt)] = slice'
      BY <2>1, <2>2 DEF SwapsReplay, OnlySwapped
    <3>2. PICK f : /\ SwapRun(f, stored.slice, sliceChange.swapRemoveAt)
                   /\ f[Len(sliceChange.swapRemoveAt)] = slice
      BY <1>3, <3>1 DEF SliceInv, SwapsReplay
    <3>3. \E g : /\ SwapRun(g, stored.slice,
                            Append(sliceChange.swapRemoveAt, i))
                 /\ g[Len(Append(sliceChange.swapRemoveAt, i))]
                      = SwapRemoved(f[Len(sliceChange.swapRemoveAt)], i)
      BY <2>2, <3>2, SwapRunGrows
    <3> QED BY <1>1, <2>2, <3>2, <3>3, Zenon
  <2> QED BY <2>4, <2>5 DEF SliceInv
<1> QED BY <1>2, <1>3

LEMMA SliceStep ==
  ASSUME TrackingTypeOK, SliceInv, [TrackingNext]_trackingVars
  PROVE  SliceInv'
<1>1. CASE Snapshot
  <2>1. /\ sliceChange' = NoSliceChange /\ slice' = slice
        /\ stored'.slice = slice /\ slice \in Slices
    BY <1>1 DEF Snapshot, ClearDirty, Save, TrackingTypeOK
  <2> QED BY <2>1, SliceUnmarked
<1>2. ASSUME NEW v, SetScalar(v) \/ UpdateChild(v) \/ EditChild(v) \/ SetChild(v)
      PROVE  SliceInv'
  BY <1>2, SliceUntouched DEF SetScalar, UpdateChild, EditChild, SetChild, OnlyMarked, Edit
<1>3. ASSUME NEW k, NEW v,
             ReplaceMap(v) \/ ClearMap \/ PutMap(k, v) \/ UpdateMap(k, v)
               \/ DelMap(k)
      PROVE  SliceInv'
  BY <1>3, SliceUntouched DEF ReplaceMap, ClearMap, PutMap, UpdateMap, DelMap,
     MarkMap, Edit
<1>4. ASSUME NEW s, ReplaceSlice(s) PROVE SliceInv'
  <2>1. sliceChange'.full
    BY <1>4 DEF ReplaceSlice, MarkSlice, Changed, NoSliceChange
  <2> QED BY <2>1 DEF SliceInv
<1>5. ASSUME NEW v \in Values, AppendSlice(v) PROVE SliceInv'
  BY <1>5, AppendKeepsReplay
<1>6. ASSUME NEW v \in Values, NEW i \in DOMAIN slice, SetSliceAt(i, v)
      PROVE  SliceInv'
  BY <1>6, SetKeepsReplay
<1>7. ASSUME NEW i \in DOMAIN slice, RemoveSliceAt(i) PROVE SliceInv'
  BY <1>7, RemoveKeepsReplay
<1>8. ASSUME NEW i \in DOMAIN slice, SwapRemoveSliceAt(i) PROVE SliceInv'
  BY <1>8, SwapKeepsReplay
<1>9. CASE UNCHANGED trackingVars
  BY <1>9, SliceUntouched
<1> QED
  BY <1>1, <1>2, <1>3, <1>4, <1>5, <1>6, <1>7, <1>8, <1>9 DEF TrackingNext

\* What the three logs lead to is what SliceOfTrace makes of them.
LEMMA SliceInvReplays ==
  ASSUME TrackingTypeOK, SliceInv
  PROVE  SliceTraceReplays
<1> DEFINE c == sliceChange
<1>1. SUFFICES ASSUME Kinds <= 1 PROVE SliceOfTrace = slice
  BY DEF SliceTraceReplays
<1>2. /\ Len(c.removeAt) \in Nat /\ Len(c.swapRemoveAt) \in Nat
      /\ slice \in Seq(Values) /\ stored.slice \in Seq(Values)
      /\ c.append \in Seq(Values)
  BY SlicesAreShort, LenProperties DEF TrackingTypeOK, States
<1>3. CASE c.full
  BY <1>3 DEF SliceOfTrace
<1>4. CASE ~c.full /\ c.removeAt # <<>>
  <2>1. OnlyRemoved
    BY <1>1, <1>4 DEF Kinds, OnlyRemoved
  <2>2. PICK f : /\ RemoveRun(f, stored.slice, c.removeAt)
                 /\ f[Len(c.removeAt)] = slice
    BY <1>4, <2>1 DEF SliceInv, RemovalsReplay
  <2>3. Replay(RemoveAt, stored.slice, c.removeAt) = slice
    BY <1>2, <2>2, RemoveRunReplays
  <2>4. SliceOfTrace = Replay(RemoveAt, stored.slice, c.removeAt)
    BY <1>4, Zenon DEF SliceOfTrace
  <2> QED BY <2>3, <2>4
<1>5. CASE ~c.full /\ c.removeAt = <<>> /\ c.swapRemoveAt # <<>>
  <2>1. OnlySwapped
    BY <1>1, <1>5 DEF Kinds, OnlySwapped
  <2>2. PICK f : /\ SwapRun(f, stored.slice, c.swapRemoveAt)
                 /\ f[Len(c.swapRemoveAt)] = slice
    BY <1>5, <2>1 DEF SliceInv, SwapsReplay
  <2>3. Replay(SwapRemoved, stored.slice, c.swapRemoveAt) = slice
    BY <1>2, <2>2, SwapRunReplays
  <2>4. SliceOfTrace = Replay(SwapRemoved, stored.slice, c.swapRemoveAt)
    BY <1>5, Zenon DEF SliceOfTrace
  <2> QED BY <2>3, <2>4
<1>6. CASE ~c.full /\ c.removeAt = <<>> /\ c.swapRemoveAt = <<>>
  <2> DEFINE long == stored.slice \o c.append
             value(i) == IF i \in DOMAIN c.set THEN c.set[i] ELSE long[i]
  <2>1. /\ Len(slice) = Len(stored.slice) + Len(c.append)
        /\ \A i \in 1 .. Len(slice) : slice[i] = value(i)
    BY <1>6 DEF SliceInv, SetsReplay
  <2>2. DOMAIN long = 1 .. Len(slice)
    BY <1>2, <2>1
  <2>3. SliceOfTrace = [i \in DOMAIN long |-> value(i)]
    BY <1>6, Zenon DEF SliceOfTrace
  <2>4. slice = [i \in 1 .. Len(slice) |-> slice[i]]
    BY <1>2
  <2> HIDE DEF value, long
  <2> QED BY <2>1, <2>2, <2>3, <2>4
<1> QED BY <1>3, <1>4, <1>5, <1>6

-----------------------------------------------------------------------------
(* Theorems.                                                               *)

LEMMA TrackingSafe ==
  TrackingSpec => [](TrackingTypeOK /\ DirtyInv /\ MapInv /\ SliceInv)
<1>1. (\E s \in States : Hydrate(s))
        => TrackingTypeOK /\ DirtyInv /\ MapInv /\ SliceInv
  BY HydrateTypes, DirtyStart, MapStart, SliceStart
<1>2. TrackingTypeOK /\ DirtyInv /\ MapInv /\ SliceInv
        /\ [TrackingNext]_trackingVars
        => (TrackingTypeOK /\ DirtyInv /\ MapInv /\ SliceInv)'
  BY TypeStep, DirtyStep, MapStep, SliceStep
<1> QED BY <1>1, <1>2, PTL DEF TrackingSpec

\* The type invariant holds, for any keys, values and bounds.
THEOREM TrackingTypesHold == TrackingSpec => []TrackingTypeOK
BY TrackingSafe, PTL

\* Every edit leaves its mark, and only edits do: no setter of the entity or
\* of a child changes a field that a snapshot would not store.
THEOREM EditsAreMarked == TrackingSpec => []DirtyIfEdited
<1>1. DirtyInv => DirtyIfEdited
  BY DEF DirtyInv
<1> QED BY <1>1, TrackingSafe, PTL

\* The trace of a map brings the last snapshot up to date, for any number of
\* keys and of edits in between.
THEOREM MapsReplay == TrackingSpec => []MapTraceReplays
<1>1. TrackingTypeOK /\ MapInv => MapTraceReplays
  BY MapInvReplays
<1> QED BY <1>1, TrackingSafe, PTL

\* The trace of a slice brings the last snapshot up to date, for any values,
\* lengths and edits, as long as elements were only added and set, only
\* removed, or only removed by swapping.
THEOREM SlicesReplay == TrackingSpec => []SliceTraceReplays
<1>1. TrackingTypeOK /\ SliceInv => SliceTraceReplays
  BY SliceInvReplays
<1> QED BY <1>1, TrackingSafe, PTL

\* Whoever has the last snapshot of an entity, and the trace that its
\* generated setters leave, can tell its collections as they are now.
THEOREM TracesReplay == TrackingSpec => []TraceReplays
<1>1. MapTraceReplays /\ SliceTraceReplays => TraceReplays
  BY DEF TraceReplays
<1> QED BY <1>1, MapsReplay, SlicesReplay, PTL
=============================================================================
