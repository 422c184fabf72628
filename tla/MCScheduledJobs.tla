--------------------------- MODULE MCScheduledJobs --------------------------
(* Three migrations (one to repeat, one that adds a column last, one that   *)
(* adds it first), the briefing every day and the review on the second.     *)
EXTENDS ScheduledJobs

MCScripts == << <<TRUE>>, <<TRUE, FALSE>>, <<FALSE, TRUE>> >>
MCDaily == {"briefing", "weekly"}
MCSendDays(l) == IF l = "briefing" THEN Nat ELSE {1}
MCLate(i) == 0
=============================================================================
