---------------------------- MODULE EntityField ----------------------------
(***************************************************************************)
(* Entities, and what it means that one says nothing the other does not:   *)
(* the promise of VerifyEntityIsSubset (internal/oracle/entity.go), which  *)
(* decides whether the oracle approves a claim about a registered user.    *)
(* A scalar field is text, of which only equality and emptiness matter; a  *)
(* role is the type and the name of an administrator or a manager.         *)
(***************************************************************************)
EXTENDS Functions

CONSTANTS
    Scalars,   \* the text fields of actions.EntityField
    Texts,     \* the values they take
    Empty      \* the value of a field that is not given

Role == [type : Texts, name : Texts]

\* All of the data in sub is specified in full.
IsSubset(sub, full) ==
    /\ \A f \in Scalars : sub.scalars[f] \in {Empty, full.scalars[f]}
    /\ Range(sub.administration) \subseteq Range(full.administration)
    /\ Range(sub.management) \subseteq Range(full.management)
=============================================================================
