------------------------------- MODULE RunGen -------------------------------
(***************************************************************************)
(* CommandRunnerMixin._run_gen (service/runner.py): the runner drives the  *)
(* generator of a streaming command, sends the answer to every yield back  *)
(* into it, runs the sub-commands it yields, and streams the other values  *)
(* into a StreamState that clients read at their own pace.  The task that  *)
(* does so may be cancelled when the hub stops.                            *)
(***************************************************************************)
EXTENDS StreamState

CONSTANTS
  Kinds,      \* what the generator yields, of "value", "none", "sub", "fan"
  MaxYields,  \* bound of the model: yields of one generator
  MayFail,    \* may the generator raise or time out
  MayStop,    \* may the hub be stopped
  MayShort    \* may a before-hook return a value

VARIABLES
  task,      \* where the task of the command is
  yields,    \* kinds of the generator's yields so far
  answers,   \* what the generator got back for each of them
  feedback,  \* the local variable of _run_gen: next asend's argument
  stopped    \* should_stop of the hub

runVars == <<task, yields, answers, feedback, stopped>>
vars == <<stateVars, clientVars, runVars>>

\* "start": before-hooks; "next": about to resume the generator; "asend" and
\* "athrow": in the generator; "sub": waiting for yielded sub-commands.
TaskState == {"start", "next", "asend", "sub", "athrow", "ended", "cancelled"}

NoFeedback == 0
Thrown     == -1    \* the generator got the sub-command's exception

\* The yield the generator made last names the value, the sub-command and
\* the sub-command's result.
Last == Len(yields)

Init ==
  /\ StateInit
  /\ task = "start" /\ yields = <<>> /\ answers = <<>>
  /\ feedback = NoFeedback /\ stopped = FALSE
-----------------------------------------------------------------------------
\* The common end of _run_gen: a state that is not done yet gets its end.
finish ==
  /\ task' = "ended"
  /\ IF done THEN UNCHANGED stateVars ELSE putNone

\* A before-hook returns a value: set_result on the stream, no handler.
ShortCircuit ==
  /\ MayShort /\ task = "start"
  /\ task' = "ended"
  /\ set_result(ShortValue)
  /\ UNCHANGED <<clientVars, yields, answers, feedback, stopped>>

Begin ==
  /\ task = "start"
  /\ task' = "next"
  /\ UNCHANGED <<stateVars, clientVars, yields, answers, feedback, stopped>>

\* wait_for(gen.asend(feedback)): the generator gets whatever feedback holds
\* as the answer to its last yield; the first asend only starts it.
asend ==
  /\ task = "next"
  /\ task' = "asend"
  /\ answers' = IF yields = <<>> THEN answers ELSE Append(answers, feedback)
  /\ UNCHANGED <<stateVars, clientVars, yields, feedback, stopped>>

\* A plausible bug: streaming a value leaves the old feedback in place.
yieldDataStale(kind) ==
  /\ IF kind = "value" THEN putValue(Last + 1) ELSE putNone
  /\ task' = "next"
  /\ UNCHANGED feedback

\* The else branch: the value goes to the stream, the feedback is None.
\* `yield None' ends the stream, not the generator.
yieldData(kind) ==
  /\ IF kind = "value" THEN putValue(Last + 1) ELSE putNone
  /\ task' = "next"
  /\ feedback' = NoFeedback

\* The generator yields out of asend, or out of athrow: that yield is
\* pending, and handled before the generator is resumed.
Yield(kind) ==
  /\ task \in {"asend", "athrow"}
  /\ Last < MaxYields
  /\ yields' = Append(yields, kind)
  /\ IF kind \in {"value", "none"} THEN yieldData(kind)
     ELSE /\ task' = "sub"
          /\ feedback' = IF task = "athrow" THEN NoFeedback ELSE feedback
          /\ UNCHANGED stateVars
  /\ UNCHANGED <<clientVars, answers, stopped>>

\* self.wait(_submit(value)) or self.wait(gather(...)) has a result; the
\* results of a gather include its exceptions.
SubResult ==
  /\ task = "sub" /\ ~stopped
  /\ feedback' = Last
  /\ task' = "next"
  /\ UNCHANGED <<stateVars, clientVars, yields, answers, stopped>>

\* A single sub-command failed: athrow hands its exception to the generator.
SubError ==
  /\ task = "sub" /\ ~stopped
  /\ yields[Last] = "sub"
  /\ answers' = Append(answers, Thrown)
  /\ task' = "athrow"
  /\ UNCHANGED <<stateVars, clientVars, yields, feedback, stopped>>

\* A plausible bug: stopping returns from _run_gen instead of breaking.
SubStoppedSilently ==
  /\ task = "sub" /\ stopped
  /\ task' = "ended"
  /\ UNCHANGED <<stateVars, clientVars, yields, answers, feedback, stopped>>

\* The hub stopped while sub-commands were running: the loop is left.
SubStopped ==
  /\ task = "sub" /\ stopped
  /\ finish
  /\ UNCHANGED <<clientVars, yields, answers, feedback, stopped>>

\* StopAsyncIteration out of asend or athrow.
GeneratorReturns ==
  /\ task \in {"asend", "athrow"}
  /\ finish
  /\ UNCHANGED <<clientVars, yields, answers, feedback, stopped>>

\* Any other exception, the timeout of wait_for and an exception the
\* generator does not catch included.
GeneratorRaises ==
  /\ task = "athrow" \/ (MayFail /\ task = "asend")
  /\ task' = "ended"
  /\ IF done THEN UNCHANGED stateVars ELSE set_exception
  /\ UNCHANGED <<clientVars, yields, answers, feedback, stopped>>

Stop ==
  /\ MayStop /\ ~stopped
  /\ stopped' = TRUE
  /\ UNCHANGED <<stateVars, clientVars, task, yields, answers, feedback>>

\* The stopping hub cancels the tasks that are left: CancelledError passes
\* `except Exception' and the put(None) after it, and the state stays as it is.
Cancel ==
  /\ stopped /\ task \notin {"ended", "cancelled"}
  /\ task' = "cancelled"
  /\ UNCHANGED <<stateVars, clientVars, yields, answers, feedback, stopped>>

Runner ==
  \/ ShortCircuit \/ Begin \/ asend
  \/ \E kind \in Kinds : Yield(kind)
  \/ SubResult \/ SubError \/ SubStopped
  \/ GeneratorReturns \/ GeneratorRaises

\* What the event loop has to run for a client.
Reading(x) == Get(x) /\ UNCHANGED runVars
Awaiting(x) == EndAwait(x) /\ UNCHANGED runVars

Next == Runner \/ Stop \/ Cancel \/ (Client /\ UNCHANGED runVars)

(* The event loop runs the runner and every client that has something to   *)
(* do.  A call of the generator ends: expire_time bounds it.  MaxYields    *)
(* bounds the model; the code has no bound on the yields.                  *)
Fairness ==
  /\ WF_vars(Runner)
  /\ \A x \in Readers : WF_vars(Reading(x))
  /\ \A x \in Awaiters : WF_vars(Awaiting(x))

Spec == Init /\ [][Next]_vars /\ Fairness
-----------------------------------------------------------------------------
(* Types of the stream, its clients and the runner.                        *)
TypeOK ==
  /\ StateTypeOK
  /\ task \in TaskState
  /\ yields \in Seq(Kinds) /\ answers \in Seq(Int)
  /\ feedback \in Int /\ stopped \in BOOLEAN

\* s holds the values of the first n yields in order, each once.
Streams(s, n) ==
  /\ \A i, j \in DOMAIN s : i < j => s[i] < s[j]
  /\ {s[i] : i \in DOMAIN s} = {i \in 1..n : yields[i] = "value"}

\* The stream as a reader is meant to see it ends at the first `yield None'.
YieldedNone == \E i \in DOMAIN yields : yields[i] = "none"
FirstNone ==
  CHOOSE i \in DOMAIN yields : yields[i] = "none" /\ \A j \in 1..(i - 1) : yields[j] # "none"
Visible == IF YieldedNone THEN FirstNone ELSE Last

(* A lone reader sees the streamed values in order, each once, and at the  *)
(* end of the stream it has seen them all.  The stream ends with the task  *)
(* or with a `yield None', after which nothing more is seen.               *)
ReaderComplete ==
  \A x \in Readers :
    /\ \E n \in 0..Visible : Streams(seen[x], n)
    /\ reader[x] = "ended" => (task = "ended" \/ YieldedNone) /\ Streams(seen[x], Visible)

(* Whatever the generator is resumed with belongs to its last yield: None  *)
(* for a streamed value, the result or the exception for a sub-command.    *)
(* No result of an earlier sub-command is passed on with a later asend.    *)
AnswersMatch ==
  \A i \in DOMAIN answers :
    answers[i] \in CASE yields[i] = "sub" -> {i, Thrown}
                     [] yields[i] = "fan" -> {i}
                     [] OTHER -> {NoFeedback}

(* What an await returned holds the whole stream, and is final unless the  *)
(* generator goes on after a `yield None'.                                 *)
AwaitFinal ==
  \A x \in Awaiters :
    awaiter[x] = "returned" =>
      /\ ~exception
      /\ IF YieldedNone THEN \E n \in Visible..Last : Streams(got[x], n)
                        ELSE got[x] = results

(* A registered callback is scheduled exactly once, and only when done.    *)
CallbacksOnce ==
  \A c \in Callbacks :
    /\ called[c] <= 1
    /\ called[c] = 1 => done
    /\ (task = "ended" /\ done) => c \notin waitingCbs

(* Once _run_gen has come to its end, or the stream to its own, whoever    *)
(* awaits is released, and so is a lone reader if the stream is what the   *)
(* handler produced.  A task that the stopping hub cancelled releases      *)
(* nobody.                                                                 *)
ClientsReleased ==
  /\ \A x \in Awaiters :
       ((task = "ended" \/ YieldedNone) /\ awaiter[x] = "waiting")
         ~> (awaiter[x] \in {"returned", "raised"})
  /\ \A x \in Readers :
       ((task = "ended" \/ YieldedNone) /\ reader[x] = "reading" /\ Streams(results, Last))
         ~> (reader[x] = "ended")

(* A streaming command can be iterated whichever way it was settled.       *)
ReadersReleased ==
  \A x \in Readers : (task = "ended" /\ reader[x] = "reading") ~> (reader[x] = "ended")
=============================================================================
