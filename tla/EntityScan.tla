----------------------------- MODULE EntityScan -----------------------------
(***************************************************************************)
(* VerifyEntityIsSubset as the code runs it: the text fields up to the     *)
(* phone number, the administrators, the managers, then the last two text  *)
(* fields, returning at the first that does not match.  The verdict is the *)
(* description that is sent with a signature that does not approve.        *)
(***************************************************************************)
EXTENDS EntityField, Sequences, Naturals

CONSTANTS
    Entities,           \* the entities that are compared
    Pending, Matched    \* no verdict yet; no error

\* The text fields an entity has.
TextFields == {
    "Name", "Type", "LEI", "UnitNumber", "BuildingNumber", "Street", "SuburbCity",
    "TerritoryStateProvinceCode", "CountryCode", "PostalZIPCode", "EmailAddress",
    "PhoneNumber", "DomainName", "PaymailHandle"}

Entity == [scalars : [Scalars -> Texts \union {Empty}],
           administration : Seq(Role), management : Seq(Role)]

ASSUME EntityAssumption == Scalars = TextFields /\ Entities \subseteq Entity

Parts == {"leading", "administration", "management", "trailing"}
ASSUME VerdictAssumption ==
    Pending # Matched /\ {Pending, Matched} \intersect (Parts \X Nat) = {}

VARIABLES sub, full, part, at, verdict
vars == <<sub, full, part, at, verdict>>

\* The fields that are compared, in the order of the code, before the roles ...
Leading == <<
    "Name", "Type", "LEI", "UnitNumber", "BuildingNumber", "Street", "SuburbCity",
    "TerritoryStateProvinceCode", "CountryCode", "PostalZIPCode", "EmailAddress",
    "PhoneNumber">>

\* Mutant: the field that was added last is forgotten.
TrailingTooShort == <<"DomainName">>

\* ... and after them.
Trailing == <<"DomainName", "PaymailHandle">>

\* What the loop over a part runs over.
Items ==
    CASE part = "leading" -> Leading
      [] part = "administration" -> sub.administration
      [] part = "management" -> sub.management
      [] part = "trailing" -> Trailing

ScalarMatches(f) == sub.scalars[f] # Empty => sub.scalars[f] = full.scalars[f]

\* Mutant: the type of the role is not compared.
IsInListByName(role, list) == \E k \in DOMAIN list : role.name = list[k].name

\* AdministratorIsInList and ManagerIsInList.
IsInList(role, list) ==
    \E k \in DOMAIN list : role.type = list[k].type /\ role.name = list[k].name

ItemMatches ==
    CASE part = "administration" -> IsInList(Items[at], full.administration)
      [] part = "management" -> IsInList(Items[at], full.management)
      [] OTHER -> ScalarMatches(Items[at])

Following ==
    CASE part = "leading" -> "administration"
      [] part = "administration" -> "management"
      [] OTHER -> "trailing"

Init ==
    /\ sub \in Entities /\ full \in Entities
    /\ part = "leading" /\ at = 1 /\ verdict = Pending

Compare ==
    /\ verdict = Pending /\ at =< Len(Items)
    /\ IF ItemMatches THEN at' = at + 1 /\ UNCHANGED verdict
                      ELSE verdict' = <<part, at>> /\ UNCHANGED at
    /\ UNCHANGED <<sub, full, part>>

\* Mutant: the next part is scanned from before its first item.
NextPartTooEarly ==
    /\ verdict = Pending /\ at > Len(Items) /\ part # "trailing"
    /\ part' = Following /\ at' = 0
    /\ UNCHANGED <<sub, full, verdict>>

NextPart ==
    /\ verdict = Pending /\ at > Len(Items) /\ part # "trailing"
    /\ part' = Following /\ at' = 1
    /\ UNCHANGED <<sub, full, verdict>>

Return ==
    /\ verdict = Pending /\ at > Len(Items) /\ part = "trailing"
    /\ verdict' = Matched
    /\ UNCHANGED <<sub, full, part, at>>

Next == Compare \/ NextPart \/ Return

Spec == Init /\ [][Next]_vars

-----------------------------------------------------------------------------
\* The variables hold values of their kind.
TypeOK ==
    /\ sub \in Entities /\ full \in Entities
    /\ part \in Parts /\ at \in Nat \ {0}
    /\ verdict \in {Pending, Matched} \union (Parts \X Nat)

\* The scan ends without an error exactly for a subset: it forgets no field and
\* no role, in whatever order the roles are listed (entity.go:11-12).
VerdictIsSubset == verdict # Pending => (verdict = Matched <=> IsSubset(sub, full))
=============================================================================
