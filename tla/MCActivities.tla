---------------------------- MODULE MCActivities ----------------------------
(* A note with a task and a meeting of two persons, another with a task and *)
(* a meeting of which only the meeting has a time.                          *)
EXTENDS Activities, TLC

MCMentions(x) == CASE x = "call ann" -> "ann" [] OTHER -> NoPerson
MCJoined(x, y) == "call"
MCAlike(x, y) == TRUE
MCCovers(x, y) == TRUE
T(title, person, note, due) ==
  [open |-> TRUE, title |-> title, person |-> person, note |-> note, due |-> due]
M(title, person, people, note, starts) ==
  [title |-> title, person |-> person, people |-> people, note |-> note, starts |-> starts]
MCRows ==
  { [tasks |-> (1 :> T("call ann", "ann", "a", 1) @@ 2 :> T("call", "bob", "b", Unset)),
     meetings |-> ("m" :> M("call ann", NoPerson, {"ann", "bob"}, "a", 1)
                   @@ "n" :> M("call", "bob", {"bob"}, "b", 1))] }

\* A third task.
MCThree == {[rows EXCEPT !.tasks = @ @@ (3 :> T("call", NoPerson, "c", Unset))] : rows \in MCRows}
=============================================================================
