--------------------------- MODULE MCConversation ---------------------------
(* Three tasks, lists of two, batches of two: the third task is the one too *)
(* many.  A project and a person.                                           *)
EXTENDS Conversation

R(s, d) == [status |-> s, day |-> d]
MCRows == { <<R("open", 0), R("waiting", 0), R("open", 0)>>,
            <<R("waiting", 2), R("absent", 2), R("absent", 2)>> }
MCEntity == {"memocore", "nghia"}
MCTypeOf(e) == IF e = "memocore" THEN "project" ELSE "person"
=============================================================================
