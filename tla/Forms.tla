------------------------------- MODULE Forms --------------------------------
(***************************************************************************)
(* The dialogs that submit to the API: "Enqueue a job", "Enqueue a batch", *)
(* and the queue sheet, whose form follows the queue that the page has     *)
(* fetched (react-hook-form's "values") while other operators change it:   *)
(* react-hook-form compares them with the last values it was given, and    *)
(* not with what it holds.                                                 *)
(*                                                                         *)
(* A value of a field stands for whatever can be typed or stored; the two  *)
(* create dialogs differ in their fields only.                             *)
(***************************************************************************)
EXTENDS Naturals, FiniteSets

CONSTANTS
  Fields,      (* The fields of the queue sheet that "update" sends.       *)
  Values,
  Calls        (* Bounds the submissions in flight.                        *)

VARIABLES
  form,        (* "create", a dialog, or "sheet", the queue's.             *)
  queue,       (* The queue as the API has it.                             *)
  fetched,     (* The queue as the page last fetched it.                   *)
  typed,       (* What the form holds.                                     *)
  touched,     (* The fields typed into since the form was last reset.     *)
  open, submitting,
  call,        (* call[c]: a submission in flight; own: by this opening. *)
  known,       (* The queue as the page last learned of it, by a fetch or  *)
               (* by storing it.                                           *)
  kept,        (* The form holds what it stored since it last followed the *)
               (* fetched queue.                                           *)
  alone        (* This opening began with no submission under way.         *)

formVars == <<form, queue, fetched, typed, touched, open, submitting, call, known,
              kept, alone>>

Body == [Fields -> Values]
Default == [f \in Fields |-> CHOOSE v \in Values : TRUE]
NoCall == [pc |-> "none", body |-> Default, own |-> FALSE]

FormTypeOK ==
  /\ form \in {"create", "sheet"}
  /\ queue \in Body /\ fetched \in Body /\ typed \in Body /\ known \in Body
  /\ touched \subseteq Fields
  /\ open \in BOOLEAN /\ alone \in BOOLEAN /\ submitting \in BOOLEAN /\ kept \in BOOLEAN
  /\ call \in [Calls -> [pc : {"none", "sent", "stored"}, body : Body, own : BOOLEAN]]

FormInit ==
  /\ form \in {"create", "sheet"}
  /\ queue = Default /\ fetched = Default /\ typed = Default /\ known = Default
  /\ touched = {} /\ open = FALSE /\ submitting = FALSE
  /\ call = [c \in Calls |-> NoCall]
  /\ kept = FALSE /\ alone = TRUE

(* reset(v): what was typed goes, and so does isSubmitting.                *)
Reset(v) == typed' = v /\ touched' = {} /\ submitting' = FALSE

(* A create dialog starts afresh each time; the sheet keeps what it had.   *)
OpenForm ==
  /\ ~open /\ open' = TRUE
  /\ call' = [c \in Calls |-> [call[c] EXCEPT !.own = FALSE]]
  /\ alone' = \A c \in Calls : call[c] = NoCall
  /\ IF form = "create" THEN Reset(Default) ELSE UNCHANGED <<typed, touched, submitting>>
  /\ UNCHANGED <<form, queue, fetched, known, kept>>

(* "Cancel", Escape, or a click outside.                                   *)
CloseForm ==
  /\ open /\ open' = FALSE
  /\ UNCHANGED <<form, queue, fetched, typed, touched, submitting, call, known, kept, alone>>

Type(f, v) ==
  /\ open
  /\ typed' = [typed EXCEPT ![f] = v]
  /\ touched' = touched \cup {f}
  /\ UNCHANGED <<form, queue, fetched, open, submitting, call, known, kept, alone>>

(* The button is disabled while the form is submitting.                    *)
SubmitAgain(c) ==
  /\ open /\ call[c] = NoCall
  /\ submitting' = TRUE
  /\ call' = [call EXCEPT ![c] = [pc |-> "sent", body |-> typed, own |-> TRUE]]
  /\ UNCHANGED <<form, queue, fetched, typed, touched, open, known, kept, alone>>

Submit(c) ==
  /\ open /\ ~submitting /\ call[c] = NoCall
  /\ submitting' = TRUE
  /\ call' = [call EXCEPT ![c] = [pc |-> "sent", body |-> typed, own |-> TRUE]]
  /\ UNCHANGED <<form, queue, fetched, typed, touched, open, known, kept, alone>>

(* queues.update writes every field the body has.                          *)
ApiStores(c) ==
  /\ call[c].pc = "sent"
  /\ call' = [call EXCEPT ![c].pc = "stored"]
  /\ queue' = IF form = "sheet" THEN call[c].body ELSE queue
  /\ UNCHANGED <<form, fetched, typed, touched, open, submitting, known, kept, alone>>

(* The answer: the form is reset and closed, whichever opening it is of.   *)
Succeeds(c) ==
  /\ call[c].pc = "stored"
  /\ call' = [call EXCEPT ![c] = NoCall]
  /\ open' = FALSE
  /\ LET v == IF form = "create" THEN Default ELSE call[c].body
     IN  Reset(v) /\ known' = v
  /\ kept' = TRUE
  /\ UNCHANGED <<form, queue, fetched, alone>>

(* A refusal, or a lost answer: handleSubmit clears isSubmitting.          *)
Fails(c) ==
  /\ call[c].pc # "none"
  /\ call' = [call EXCEPT ![c] = NoCall]
  /\ submitting' = FALSE
  /\ UNCHANGED <<form, queue, fetched, typed, touched, open, known, kept, alone>>

OtherOperator ==
  /\ form = "sheet"
  /\ \E f \in Fields, v \in Values : queue' = [queue EXCEPT ![f] = v]
  /\ UNCHANGED <<form, fetched, typed, touched, open, submitting, call, known, kept, alone>>

(* The page fetches the queue.  Values other than the last ones reset the  *)
(* form, open or not; the same values do not, whatever it holds by now.    *)
RefetchKeepingForm ==
  /\ form = "sheet" /\ fetched' = queue /\ known' = queue
  /\ UNCHANGED <<form, queue, typed, touched, open, submitting, call, kept, alone>>

Refetch ==
  /\ form = "sheet" /\ fetched' = queue /\ known' = queue
  /\ IF queue # fetched THEN Reset(queue) /\ kept' = FALSE
     ELSE UNCHANGED <<typed, touched, submitting, kept>>
  /\ UNCHANGED <<form, queue, open, call, alone>>

FormNext ==
  \/ OpenForm \/ CloseForm \/ OtherOperator \/ Refetch
  \/ \E f \in Fields, v \in Values : Type(f, v)
  \/ \E c \in Calls : Submit(c) \/ ApiStores(c) \/ Succeeds(c) \/ Fails(c)

-----------------------------------------------------------------------------
(* The sheet sends every field, but one the operator did not type into has *)
(* the value the page has learned, by a fetch or by storing it: what       *)
(* another operator changed, and the page knows of, is not reverted        *)
(* (queue-config-sheet.tsx: "values", reset in onSubmit).  One case the    *)
(* code does not cover: the form has stored its values, and the next fetch *)
(* brings the last "values" again, since another operator has put them     *)
(* back, or since they were fetched after the storing and before its       *)
(* answer.  Then the form keeps, and may send, its own.                    *)
LastValuesAgain == kept /\ known = fetched

UntouchedFieldsCurrent ==
  [][\A c \in Calls :
       (form = "sheet" /\ call[c].pc = "none" /\ call'[c].pc = "sent") =>
         \/ \A f \in Fields \ touched : call'[c].body[f] = known[f]
         \/ LastValuesAgain]_formVars

(* An opening of a create dialog that began with no submission under way   *)
(* never has two of its own: a second click does not create the job twice  *)
(* (isSubmitting).  One that began with an earlier opening's submission    *)
(* may: the end of that one enables the button.                            *)
OneSubmissionPerOpening ==
  (form = "create" /\ alone) =>
    Cardinality({c \in Calls : call[c] # NoCall /\ call[c].own}) <= 1
=============================================================================
