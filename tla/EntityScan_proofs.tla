------------------------- MODULE EntityScan_proofs -------------------------
(***************************************************************************)
(* The scan compares every text field and decides IsSubset for all         *)
(* entities, and IsSubset is an order on what entities say: what the       *)
(* oracle approved for a claim holds for every part of the claim.          *)
(*                                                                         *)
(* The verdict alone is not inductive: Scanned adds what the scan has      *)
(* compared so far.                                                        *)
(***************************************************************************)
EXTENDS EntityScan, TLAPS

\* A text field says nothing that full does not say.
FieldOK(f) == sub.scalars[f] \in {Empty, full.scalars[f]}

\* Item i of the current part is one that full has too.
ItemOK(i) ==
    CASE part = "administration" -> Items[i] \in Range(full.administration)
      [] part = "management" -> Items[i] \in Range(full.management)
      [] OTHER -> FieldOK(Items[i])

\* The parts before the current one are compared, and of it the items before at.
Scanned ==
    /\ part # "leading" => \A i \in DOMAIN Leading : FieldOK(Leading[i])
    /\ part \in {"management", "trailing"} =>
          Range(sub.administration) \subseteq Range(full.administration)
    /\ part = "trailing" => Range(sub.management) \subseteq Range(full.management)
    /\ \A i \in 1 .. at - 1 : i \in DOMAIN Items => ItemOK(i)

IInv == TypeOK /\ VerdictIsSubset /\ (verdict = Pending => Scanned)

-----------------------------------------------------------------------------
\* A role is in a list for the code when it is an element of it.
LEMMA InListIsInRange ==
    ASSUME NEW list \in Seq(Role), NEW role \in Role
    PROVE  IsInList(role, list) <=> role \in Range(list)
<1>1. \A k \in DOMAIN list : list[k] \in Role
  OBVIOUS
<1>2. \A k \in DOMAIN list :
        (role.type = list[k].type /\ role.name = list[k].name) <=> role = list[k]
  BY <1>1 DEF Role
<1>3. QED
  BY <1>2 DEF IsInList, Range

\* The two lists of text fields name every field and nothing else: the comparison
\* has not forgotten one of them (entity.go:14-50, 64-69).
LEMMA AllFieldsAreCompared ==
    /\ Leading \in Seq(Scalars) /\ Trailing \in Seq(Scalars)
    /\ Range(Leading) \union Range(Trailing) = Scalars
<1>1. Leading \in Seq(Scalars) /\ Trailing \in Seq(Scalars)
  BY EntityAssumption DEF Leading, Trailing, TextFields
<1>2. \A f \in Scalars : f \in Range(Leading) \/ f \in Range(Trailing)
  <2>1. Scalars = {Leading[i] : i \in 1 .. 12} \union {Trailing[1], Trailing[2]}
    BY EntityAssumption DEF Leading, Trailing, TextFields
  <2>2. DOMAIN Leading = 1 .. 12 /\ DOMAIN Trailing = 1 .. 2
    BY DEF Leading, Trailing
  <2>3. QED
    BY <2>1, <2>2 DEF Range
<1>3. QED
  BY <1>1, <1>2 DEF Range

\* The lists of an entity are lists of roles.
LEMMA EntityLists ==
    ASSUME TypeOK
    PROVE  /\ sub.administration \in Seq(Role) /\ sub.management \in Seq(Role)
           /\ full.administration \in Seq(Role) /\ full.management \in Seq(Role)
           /\ Leading \in Seq(Scalars) /\ Trailing \in Seq(Scalars)
<1>1. sub \in Entity /\ full \in Entity
  BY EntityAssumption DEF TypeOK
<1>2. QED
  BY <1>1, AllFieldsAreCompared DEF Entity

\* The items of a part are those of its sequence.
LEMMA ItemsOfPart ==
    ASSUME TypeOK
    PROVE  /\ DOMAIN Items = 1 .. Len(Items) /\ Len(Items) \in Nat
           /\ part = "leading" => Items = Leading
           /\ part = "administration" => Items = sub.administration
           /\ part = "management" => Items = sub.management
           /\ part = "trailing" => Items = Trailing
<1>1. CASE part = "leading"
  BY <1>1, EntityLists DEF Items
<1>2. CASE part = "administration"
  BY <1>2, EntityLists DEF Items
<1>3. CASE part = "management"
  BY <1>3, EntityLists DEF Items
<1>4. CASE part = "trailing"
  BY <1>4, EntityLists DEF Items
<1>5. QED
  BY <1>1, <1>2, <1>3, <1>4 DEF TypeOK, Parts

\* An item matches in the code when the other entity says it too.
LEMMA MatchMeaning ==
    ASSUME TypeOK, at \in DOMAIN Items
    PROVE  ItemMatches <=> ItemOK(at)
<1>1. CASE part = "administration"
  <2>1. Items[at] \in Role
    BY <1>1, ItemsOfPart, EntityLists
  <2>2. QED
    BY <1>1, <2>1, EntityLists, InListIsInRange DEF ItemMatches, ItemOK
<1>2. CASE part = "management"
  <2>1. Items[at] \in Role
    BY <1>2, ItemsOfPart, EntityLists
  <2>2. QED
    BY <1>2, <2>1, EntityLists, InListIsInRange DEF ItemMatches, ItemOK
<1>3. CASE part \notin {"administration", "management"}
  <2>1. \A f : ScalarMatches(f) <=> FieldOK(f)
    BY DEF ScalarMatches, FieldOK
  <2>2. QED
    BY <1>3, <2>1 DEF ItemMatches, ItemOK
<1>4. QED
  BY <1>1, <1>2, <1>3

\* An item that full lacks keeps sub from being a subset.
LEMMA MismatchRefutes ==
    ASSUME TypeOK, at \in DOMAIN Items, ~ItemOK(at)
    PROVE  ~IsSubset(sub, full)
<1>1. CASE part = "administration"
  BY <1>1, ItemsOfPart DEF ItemOK, IsSubset, Range
<1>2. CASE part = "management"
  BY <1>2, ItemsOfPart DEF ItemOK, IsSubset, Range
<1>3. CASE part \in {"leading", "trailing"}
  <2>1. Items[at] \in Scalars
    BY <1>3, ItemsOfPart, EntityLists
  <2>2. QED
    BY <1>3, <2>1 DEF ItemOK, FieldOK, IsSubset
<1>4. QED
  BY <1>1, <1>2, <1>3 DEF TypeOK, Parts

-----------------------------------------------------------------------------
LEMMA InitIInv == Init => IInv
<1> SUFFICES ASSUME Init PROVE IInv
  OBVIOUS
<1>1. TypeOK /\ VerdictIsSubset
  BY VerdictAssumption DEF Init, TypeOK, VerdictIsSubset, Parts
<1>2. Scanned
  BY DEF Init, Scanned
<1>3. QED
  BY <1>1, <1>2 DEF IInv

LEMMA CompareStep == ASSUME IInv, Compare PROVE IInv'
<1>1. /\ TypeOK /\ Scanned /\ verdict = Pending /\ at \in Nat \ {0}
      /\ UNCHANGED <<sub, full, part>> /\ part \in Parts
  BY DEF IInv, Compare, TypeOK
<1>2. at \in DOMAIN Items
  BY <1>1, ItemsOfPart DEF Compare
<1>3. Items' = Items
  BY <1>1 DEF Items
<1>4. CASE ItemMatches
  <2>1. at' = at + 1 /\ verdict' = Pending
    BY <1>1, <1>4 DEF Compare
  <2>2. TypeOK' /\ VerdictIsSubset'
    BY <1>1, <2>1 DEF TypeOK, VerdictIsSubset
  <2>3. ItemOK(at)
    BY <1>1, <1>2, <1>4, MatchMeaning
  <2>4. \A i \in 1 .. at' - 1 : i \in 1 .. at - 1 \/ i = at
    BY <1>1, <2>1
  <2>5. \A i : ItemOK(i)' <=> ItemOK(i)
    BY <1>1, <1>3 DEF ItemOK, FieldOK
  <2>6. \A i \in 1 .. at' - 1 : i \in DOMAIN Items' => ItemOK(i)'
    BY <1>1, <1>3, <2>3, <2>4, <2>5 DEF Scanned
  <2>7. Scanned'
    BY <1>1, <2>6 DEF Scanned, FieldOK
  <2>8. QED
    BY <2>2, <2>7 DEF IInv
<1>5. CASE ~ItemMatches
  <2>1. verdict' = <<part, at>> /\ at' = at
    BY <1>1, <1>5 DEF Compare
  <2>2. verdict' \in Parts \X Nat /\ verdict' # Pending /\ verdict' # Matched
    BY <1>1, <2>1, VerdictAssumption
  <2>3. TypeOK'
    BY <1>1, <2>1, <2>2 DEF TypeOK
  <2>4. ~IsSubset(sub, full)
    BY <1>1, <1>2, <1>5, MatchMeaning, MismatchRefutes
  <2>5. QED
    BY <1>1, <2>2, <2>3, <2>4 DEF IInv, VerdictIsSubset, IsSubset
<1>6. QED
  BY <1>4, <1>5

\* At the end of a part all its items are compared.
LEMMA PartDone ==
    ASSUME TypeOK, Scanned, at > Len(Items)
    PROVE  \A i \in DOMAIN Items : ItemOK(i)
<1>1. DOMAIN Items = 1 .. Len(Items) /\ Len(Items) \in Nat /\ at \in Nat
  BY ItemsOfPart DEF TypeOK
<1>2. \A i \in DOMAIN Items : i \in 1 .. at - 1
  BY <1>1
<1>3. QED
  BY <1>2 DEF Scanned

LEMMA NextPartStep == ASSUME IInv, NextPart PROVE IInv'
<1>1. /\ TypeOK /\ Scanned /\ verdict = Pending /\ part \in Parts /\ at > Len(Items)
      /\ part' = Following /\ at' = 1 /\ part # "trailing" /\ UNCHANGED <<sub, full, verdict>>
  BY DEF IInv, NextPart, TypeOK
<1>2. \A i \in DOMAIN Items : ItemOK(i)
  BY <1>1, PartDone
<1>3. TypeOK' /\ VerdictIsSubset'
  BY <1>1 DEF TypeOK, VerdictIsSubset, Parts, Following
<1>4. \A i \in 1 .. at' - 1 : FALSE
  BY <1>1
<1>5. CASE part = "leading"
  <2>1. \A i \in DOMAIN Leading : FieldOK(Leading[i])
    BY <1>1, <1>2, <1>5, ItemsOfPart DEF ItemOK
  <2>2. part' = "administration"
    BY <1>1, <1>5 DEF Following
  <2>3. Scanned'
    BY <1>1, <1>4, <2>1, <2>2 DEF Scanned, FieldOK
  <2>4. QED
    BY <1>3, <2>3 DEF IInv
<1>6. CASE part = "administration"
  <2>1. Range(sub.administration) \subseteq Range(full.administration)
    BY <1>1, <1>2, <1>6, ItemsOfPart DEF ItemOK, Range
  <2>2. part' = "management"
    BY <1>1, <1>6 DEF Following
  <2>3. Scanned'
    BY <1>1, <1>4, <1>6, <2>1, <2>2 DEF Scanned, FieldOK
  <2>4. QED
    BY <1>3, <2>3 DEF IInv
<1>7. CASE part = "management"
  <2>1. Range(sub.management) \subseteq Range(full.management)
    BY <1>1, <1>2, <1>7, ItemsOfPart DEF ItemOK, Range
  <2>2. part' = "trailing"
    BY <1>1, <1>7 DEF Following
  <2>3. Scanned'
    BY <1>1, <1>4, <1>7, <2>1, <2>2 DEF Scanned, FieldOK
  <2>4. QED
    BY <1>3, <2>3 DEF IInv
<1>8. QED
  BY <1>1, <1>5, <1>6, <1>7 DEF Parts

LEMMA ReturnStep == ASSUME IInv, Return PROVE IInv'
<1>1. /\ TypeOK /\ Scanned /\ part = "trailing" /\ at > Len(Items)
      /\ verdict = Pending /\ verdict' = Matched /\ UNCHANGED <<sub, full, part, at>>
  BY DEF IInv, Return
<1>2. TypeOK'
  BY <1>1 DEF TypeOK
<1>3. IsSubset(sub, full)
  <2>1. \A i \in DOMAIN Trailing : FieldOK(Trailing[i])
    BY <1>1, PartDone, ItemsOfPart DEF ItemOK
  <2>2. \A i \in DOMAIN Leading : FieldOK(Leading[i])
    BY <1>1 DEF Scanned
  <2>3. \A f \in Scalars : FieldOK(f)
    BY <2>1, <2>2, AllFieldsAreCompared DEF Range
  <2>4. QED
    BY <1>1, <2>3 DEF Scanned, IsSubset, FieldOK
<1>4. QED
  BY <1>1, <1>2, <1>3, VerdictAssumption DEF IInv, VerdictIsSubset, IsSubset

LEMMA NextIInv == IInv /\ [Next]_vars => IInv'
<1> SUFFICES ASSUME IInv, [Next]_vars PROVE IInv'
  OBVIOUS
<1>1. CASE Compare
  BY <1>1, CompareStep
<1>2. CASE NextPart
  BY <1>2, NextPartStep
<1>3. CASE Return
  BY <1>3, ReturnStep
<1>4. CASE UNCHANGED vars
  <2>1. TypeOK' /\ VerdictIsSubset'
    BY <1>4 DEF IInv, vars, TypeOK, VerdictIsSubset, IsSubset
  <2>2. verdict' = Pending => Scanned'
    BY <1>4 DEF IInv, vars, Scanned, Items, ItemOK, FieldOK
  <2>3. QED
    BY <2>1, <2>2 DEF IInv
<1>5. QED
  BY <1>1, <1>2, <1>3, <1>4 DEF Next

-----------------------------------------------------------------------------
\* The scan accepts exactly the subsets, whatever the texts and the lists of roles.
THEOREM ScanDecidesSubset == Spec => []VerdictIsSubset
<1>1. IInv => VerdictIsSubset
  BY DEF IInv
<1>2. QED
  BY <1>1, InitIInv, NextIInv, PTL DEF Spec

\* The scan keeps what it was given, and names the list and the place of the first
\* item that is not found.
THEOREM TypeCorrect == Spec => []TypeOK
<1>1. IInv => TypeOK
  BY DEF IInv
<1>2. QED
  BY <1>1, InitIInv, NextIInv, PTL DEF Spec

\* A registered user may claim the registered entity itself ...
THEOREM SubsetReflexive == ASSUME NEW e PROVE IsSubset(e, e)
BY DEF IsSubset

\* ... and may leave out more of what was approved already: what is approved for
\* a claim is approved for each part of it.
THEOREM SubsetTransitive ==
    ASSUME NEW d, NEW e, NEW f, IsSubset(d, e), IsSubset(e, f)
    PROVE  IsSubset(d, f)
BY DEF IsSubset
=============================================================================
