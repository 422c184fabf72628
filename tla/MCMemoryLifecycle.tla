------------------------- MODULE MCMemoryLifecycle -------------------------
(* Three claims that contradict each other, and one that is looked up by a  *)
(* project it is not stored with.                                           *)
EXTENDS MemoryLifecycle

Claim(project, text) ==
  [bucket |-> "profile", project |-> project, topic |-> "residence",
   text |-> text]
MCClaims == {Claim(NoProject, t) : t \in {"a", "b", "c"}}
            \cup {Claim("ste", "a")}
=============================================================================
