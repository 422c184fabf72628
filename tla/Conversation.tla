---------------------------- MODULE Conversation ----------------------------
(***************************************************************************)
(* The conversation of a chat: messages about tasks (TaskReferences) and    *)
(* messages about what is known of a project, a person or an organization,  *)
(* which may say "this project" for the one the chat is focused on.  The    *)
(* focus is a row of chat_contexts: ReferenceResolver reads and renews it,  *)
(* and the record of every turn writes it again.                            *)
(***************************************************************************)
EXTENDS TaskReferences

CONSTANTS
  Entity,      \* projects, people, organizations, and tasks as a topic
  TypeOf(_)    \* the type of an entity

VARIABLES
  focus,   \* focused entity of chat_contexts, and expires_at
  named,   \* history: the entity the last turn found by its name
  wrote    \* history: the type the last knowledge update spoke of, its target

vars == <<taskVars, focus, named, wrote>>

Types == {"project", "person", "organization", "task"}
Nobody == "none"
NoFocus == [of |-> Nobody, expires |-> 0]

ASSUME EntityAssumption == \A e \in Entity : e # Nobody /\ TypeOf(e) \in Types

Init == /\ TaskInit
        /\ focus = NoFocus /\ named = Nobody /\ wrote = [typed |-> Nobody, to |-> Nobody]

-----------------------------------------------------------------------------
(* ReferenceResolver.resolve: a text says "this project" (typed), "it", or  *)
(* neither, and may contain names, in what it tells as well.                *)

Pronouns == Types \cup {"it", Nobody}

\* _context_reference without a type.
Focused(e) == focus.of = e /\ focus.expires > now

\* The words of the last resort.
Contextual(pronoun) == pronoun \in {"project", "task", "person", "it"}

\* The one entity of a type whose name is in the text; a word for the type
\* puts organizations first.
Only(type, names) ==
  {e \in names : TypeOf(e) = type /\ \A o \in names : TypeOf(o) = type => o = e}

ByName(pronoun, names) ==
  LET order == IF pronoun = "organization"
               THEN <<"organization", "project", "person", "task">>
               ELSE <<"project", "person", "organization", "task">>
      found == {i \in DOMAIN order : Only(order[i], names) # {}}
  IN  IF found = {} THEN Nobody
      ELSE CHOOSE e \in Only(order[Min(found)], names) : TRUE

Typed(pronoun) == \E e \in Entity : Focused(e) /\ TypeOf(e) = pronoun

Resolved(pronoun, names) ==
  IF Typed(pronoun) THEN focus.of
  ELSE IF ByName(pronoun, names) # Nobody THEN ByName(pronoun, names)
  ELSE IF Contextual(pronoun) /\ \E e \in Entity : Focused(e) THEN focus.of
  ELSE Nobody

FoundByName(pronoun, names) == ~Typed(pronoun) /\ ByName(pronoun, names) # Nobody

\* remember: the entity, or else the one of before, whose time begins again.
Remembered(e) ==
  LET of == IF e # Nobody THEN e ELSE focus.of
  IN  [of |-> of, expires |-> IF of = Nobody THEN 0 ELSE now + TTL]

\* Faulty variant of Record: the frame of the turn, read before the handler.
RecordFrame(row) == focus' = [row EXCEPT !.of = focus.of]

\* _record_conversation_outcome writes the row again as the handler left it.
Record(row) == focus' = row

\* A message that is not a change of tasks: nothing of theirs is written.
Talk ==
  /\ Turn
  /\ Dismissed /\ did' = Nothing
  /\ UNCHANGED <<now, status, due, list, shown, seen, intact, lost>>

-----------------------------------------------------------------------------
\* A question about an entity.  If it cannot be answered from what is known,
\* another answer is given and the focus is left alone.
Query(pronoun, names, answered) ==
  LET e == Resolved(pronoun, names) IN
  /\ Record(IF answered THEN Remembered(e) ELSE focus)
  /\ named' = IF answered /\ FoundByName(pronoun, names) THEN e ELSE named
  /\ UNCHANGED wrote

\* "Add this about ...".  What is told is stored in one transaction, the focus
\* after it; the process may end between the two.
Update(pronoun, names, told, ends) ==
  LET e == Resolved(pronoun, names) IN
  IF e = Nobody \/ TypeOf(e) = "task" \/ ~told
  THEN Record(focus) /\ UNCHANGED <<named, wrote>>
  ELSE /\ wrote' = [typed |-> pronoun, to |-> e]
       /\ IF ends
          THEN /\ Record(Remembered(e))
               /\ named' = IF FoundByName(pronoun, names) THEN e ELSE named
          ELSE UNCHANGED <<focus, named>>

\* Any message or button about tasks; texts record their turn as well.
AboutTasks == TaskNext /\ Record(focus) /\ UNCHANGED <<named, wrote>>

Next ==
  \/ AboutTasks
  \/ Talk /\ \E pronoun \in Pronouns, names \in SUBSET Entity :
       \/ \E answered \in BOOLEAN : Query(pronoun, names, answered)
       \/ \E told, ends \in BOOLEAN : Update(pronoun, names, told, ends)

Spec == Init /\ [][Next]_vars

-----------------------------------------------------------------------------
TypeOK ==
  /\ TaskTypeOK
  /\ focus \in [of : Entity \cup {Nobody}, expires : 0 .. End + TTL]
  /\ named \in Entity \cup {Nobody}
  /\ wrote \in [typed : Pronouns, to : Entity \cup {Nobody}]

\* Whatever was said since, the focus is the entity that a turn found last by
\* its name: "this project" is never one the conversation has left.
FocusIsLastNamed == named # Nobody => focus.of = named

\* "Wrong entity write: 0"; "typed references must beat incidental name
\* matches": what is told of "this project" is stored with a project.
TypedMeansType == wrote.typed \in Types => TypeOf(wrote.to) = wrote.typed
=============================================================================
