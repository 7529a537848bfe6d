----------------------------- MODULE HubProofs -----------------------------
(***************************************************************************)
(* Proofs about Hub: for every set of messages, whatever their handlers    *)
(* create and however deep they nest, places in the queue are accounted    *)
(* for, subscribers follow a success, the history tells the truth, a       *)
(* handoff is transparent, and nobody waits for what cannot answer.        *)
(***************************************************************************)
EXTENDS Hub, SequenceTheorems, TLAPS

StatusSet == {"ABSENT", "PENDING", "IN_FLIGHT"}

TypeInv ==
  /\ phase \in [Messages -> Phase] /\ fut \in [Messages -> Future]
  /\ child \in [Messages -> Messages \union {None}]
  /\ status \in [Messages -> StatusSet]
  /\ stop \in {"running", "hub", "all"} /\ crashed \in BOOLEAN
  /\ callbacks \subseteq Triggered /\ tries \in [Messages -> Nat]

\* What the phase of a message says of its entry in the store.
Slots ==
  \A m \in Messages :
    /\ phase[m] \in {"new", "spawned", "ended"} => status[m] = "ABSENT"
    /\ phase[m] = "queued" => status[m] = "PENDING"
    /\ HasTask(m) => status[m] = "IN_FLIGHT"
    /\ phase[m] = "lost" => status[m] = "IN_FLIGHT" /\ (fut[m] = "cancelled" \/ stop = "all")

\* ... of its state: open or cancelled until the runner settles it.
Settling ==
  \A m \in Messages :
    /\ phase[m] \in {"new", "spawned"} => fut[m] = "open"
    /\ phase[m] \in {"queued", "start", "call", "await", "handoff"}
         => fut[m] \in {"open", "cancelled"}
    /\ phase[m] \in {"after", "complete", "ended"}
         => fut[m] # "open" \/ (child[m] # None /\ HubStopping)

\* ... and of the message it waits for.
Waiting ==
  \A m \in Messages :
    /\ phase[m] \in {"new", "spawned", "queued", "start", "call"} => child[m] = None
    /\ phase[m] \in {"await", "handoff"}
         => child[m] \in Messages /\ phase[child[m]] \notin {"new", "spawned"}

\* A callback is bound once, by one dispatch of its event, and its command
\* is new until the callback has run.
Binding ==
  /\ \A h \in Triggered :
       h \in callbacks \/ phase[h] # "new" => TryOf[h] <= tries[SourceOf[h]]
  /\ \A h \in callbacks : phase[h] = "new"

\* What the history may say: its messages have ended.
Records ==
  {e \in Messages \X Q!Outcome :
     /\ phase[e[1]] = "ended"
     /\ \/ e[2] = Q!DONE /\ fut[e[1]] = "result"
        \/ e[2] = Q!FAILED /\ fut[e[1]] \in {"error", "timeout"}
        \/ e[2] = Q!DONE /\ HubStopping /\ child[e[1]] # None}

Recorded == history \in Seq(Records)

IInv ==
  /\ TypeInv /\ Slots /\ Settling /\ Waiting /\ Binding /\ Recorded
  /\ SubscriberAfterSuccess /\ HandoffTransparent

\* A step settles open futures and leaves the others, and it settles those
\* of other messages than m only by a cancellation of what was dispatched.
Keeps(f) == f \in [Messages -> Future] /\ \A n \in Messages : fut[n] # "open" => f[n] = fut[n]
CancelsOthers(f, m) ==
  \A n \in Messages \ {m} :
    f[n] = fut[n] \/ (phase[n] \notin {"new", "spawned"} /\ f[n] = "cancelled")

\* A future settled once keeps its result.
LEMMA SettledKeeps ==
  ASSUME TypeInv, NEW m, NEW r \in Future, NEW f, Keeps(f)
  PROVE  /\ Keeps(Settled(f, m, r))
         /\ \A n \in Messages \ {m} : Settled(f, m, r)[n] = f[n]
         /\ m \in Messages => Settled(f, m, r)[m] = IF f[m] = "open" THEN r ELSE f[m]
BY DEF Keeps, Settled, TypeInv, Future

(* An ended message stays as it ended, so the history stays true.          *)
LEMMA RecordsKept ==
  ASSUME TypeInv, Recorded, Keeps(fut'), HubStopping => HubStopping', history' = history,
         \A n \in Messages :
           phase[n] = "ended" => phase'[n] = "ended" /\ child'[n] = child[n]
  PROVE  Recorded'
<1>1. ASSUME NEW e \in Records PROVE e \in Records'
  <2>1. e \in Messages \X Q!Outcome /\ e[1] \in Messages
    BY <1>1 DEF Records
  <2>2. phase'[e[1]] = "ended" /\ child'[e[1]] = child[e[1]]
    BY <1>1, <2>1 DEF Records
  <2>3. fut[e[1]] # "open" => fut'[e[1]] = fut[e[1]]
    BY <2>1 DEF Keeps
  <2> QED
    BY <1>1, <2>1, <2>2, <2>3 DEF Records
<1>2. Records \subseteq Records'
  BY <1>1
<1> QED
  BY <1>2, SeqMonotonic DEF Recorded

(* No message has been dispatched. *)
LEMMA InitInv == Init => IInv
<1> SUFFICES ASSUME Init PROVE IInv
  OBVIOUS
<1>1. TypeInv
  BY DEF Init, TypeInv, Phase, Future, StatusSet
<1>2. Slots /\ Settling /\ Waiting
  BY DEF Init, Slots, Settling, Waiting, HasTask, Live
<1>3. SubscriberAfterSuccess
  BY KindsAssumption DEF Init, SubscriberAfterSuccess
<1>4. HandoffTransparent
  BY DEF Init, HandoffTransparent
<1>5. Binding
  BY KindsAssumption DEF Init, Binding
<1>6. Recorded
  BY DEF Init, Recorded
<1> QED
  BY <1>1, <1>2, <1>3, <1>4, <1>5, <1>6 DEF IInv
-----------------------------------------------------------------------------
(* A step of the task of m inside _run: it calls the handler (again), or   *)
(* the runner has returned with an outcome.                                *)
Runs(m) ==
  /\ HasTask(m) /\ UNCHANGED <<queueVars, crashed>>
  /\ \E p \in {"call", "after", "complete"} : phase' = [phase EXCEPT ![m] = p]
  /\ \/ child' = child
     \/ child' = [child EXCEPT ![m] = None]
  /\ Keeps(fut') /\ CancelsOthers(fut', m)
  /\ IF phase'[m] = "call"
     THEN child'[m] = None /\ fut'[m] \in {"open", "cancelled"}
     ELSE /\ fut'[m] # "open" \/ (child'[m] # None /\ HubStopping)
          /\ (child'[m] # None /\ fut'[m] \in {"result", "error"} /\ ~HubStopping)
               => fut'[child'[m]] = fut'[m]

\* A step of a task that runs keeps the invariant.
LEMMA RunsInv ==
  ASSUME IInv, NEW m \in Messages, Runs(m),
         callbacks' \subseteq Triggered, tries' \in [Messages -> Nat], Binding'
  PROVE  IInv'
<1> USE DEF IInv, Runs
<1>1. PICK p \in {"call", "after", "complete"} : phase' = [phase EXCEPT ![m] = p]
  OBVIOUS
<1>a. \A n \in Messages : phase'[n] = IF n = m THEN p ELSE phase[n]
  BY <1>1 DEF TypeInv
<1>b. \A n \in Messages \ {m} : child'[n] = child[n]
  BY DEF TypeInv
<1>c. /\ status' = status /\ history' = history /\ stop' = stop /\ crashed' = crashed
      /\ HubStopping' = HubStopping
  BY DEF queueVars, HubStopping
<1>d. phase[m] \notin {"new", "spawned", "queued", "ended", "lost"}
  BY DEF HasTask, Live
<1>2. TypeInv'
  <2>1. phase' \in [Messages -> Phase]
    BY <1>1 DEF TypeInv, Phase
  <2>2. child' \in [Messages -> Messages \union {None}]
    BY DEF TypeInv
  <2> QED
    BY <2>1, <2>2, <1>c DEF TypeInv, Keeps
<1>3. Slots'
  <2>1. HasTask(m) /\ HasTask(m)'
    BY <1>a DEF HasTask, Live
  <2> QED
    BY <2>1, <1>a, <1>c, <1>d DEF Slots, HasTask, Live, Keeps
<1>4. Settling'
  BY <1>a, <1>b, <1>c, <1>d DEF Settling, CancelsOthers
<1>5. Waiting'
  BY <1>a, <1>b, <1>d DEF Waiting
<1>6. Recorded'
  BY <1>a, <1>b, <1>c, <1>d, RecordsKept
<1>7. SubscriberAfterSuccess'
  BY <1>a, <1>d, KindsAssumption DEF SubscriberAfterSuccess, Keeps
<1>8. HandoffTransparent'
  <2> SUFFICES ASSUME NEW n \in Messages,
                      child'[n] # None, phase'[n] \in {"after", "complete", "ended"},
                      fut'[n] \in {"result", "error"}, ~HubStopping'
               PROVE  fut'[child'[n]] = fut'[n]
    BY DEF HandoffTransparent
  <2>1. CASE n = m
    BY <2>1, <1>a, <1>c
  <2>2. CASE n # m
    <3>1. fut'[n] = fut[n] /\ child'[n] = child[n] /\ phase'[n] = phase[n]
      BY <2>2, <1>a, <1>b DEF CancelsOthers
    <3>2. fut[child[n]] = fut[n] /\ child[n] \in Messages
      BY <3>1, <1>c, NoneAssumption DEF HandoffTransparent, TypeInv
    <3> QED
      BY <3>1, <3>2 DEF Keeps
  <2> QED
    BY <2>1, <2>2
<1> QED
  BY <1>2, <1>3, <1>4, <1>5, <1>6, <1>7, <1>8

(* Binding the callbacks of a dispatched message: each is bound by one     *)
(* dispatch of its event, so never again once its command exists.          *)
LEMMA BindInv ==
  ASSUME IInv, NEW m \in Messages, bind_subscriber_callbacks(m),
         \A h \in Triggered : phase[h] = "new" <=> phase'[h] = "new"
  PROVE  callbacks' \subseteq Triggered /\ tries' \in [Messages -> Nat] /\ Binding'
<1> USE DEF IInv
<1>1. CASE IsEvent(m)
  <2>1. /\ tries' = [tries EXCEPT ![m] = @ + 1]
        /\ callbacks' = callbacks \union
             {h \in Triggered : SourceOf[h] = m /\ TryOf[h] = tries[m] + 1}
    BY <1>1 DEF bind_subscriber_callbacks
  <2>2. callbacks' \subseteq Triggered /\ tries' \in [Messages -> Nat]
    BY <2>1 DEF TypeInv
  <2>3. \A n \in Messages : tries[n] \in Nat /\ tries'[n] \in Nat /\ tries[n] <= tries'[n]
                            /\ (n = m => tries'[n] = tries[n] + 1)
    BY <2>1 DEF TypeInv
  <2>4. ASSUME NEW h \in Triggered, h \in callbacks' \/ phase'[h] # "new"
        PROVE  TryOf[h] <= tries'[SourceOf[h]]
    <3>1. SourceOf[h] \in Messages /\ TryOf[h] \in Nat
      BY KindsAssumption
    <3>2. CASE h \in callbacks \/ phase[h] # "new"
      BY <3>1, <3>2, <2>3 DEF Binding
    <3>3. CASE h \notin callbacks /\ phase[h] = "new"
      BY <3>1, <3>3, <2>1, <2>3, <2>4
    <3> QED
      BY <3>2, <3>3
  <2>5. ASSUME NEW h \in callbacks' PROVE phase'[h] = "new"
    <3>1. h \in Triggered /\ SourceOf[h] \in Messages /\ TryOf[h] \in Nat
      BY <2>2, KindsAssumption
    <3>2. CASE h \in callbacks
      BY <3>1, <3>2 DEF Binding
    <3>3. CASE h \notin callbacks
      <4>1. SourceOf[h] = m /\ TryOf[h] = tries[m] + 1
        BY <3>3, <2>1
      <4>2. phase[h] = "new"
        BY <4>1, <3>1, <2>3 DEF Binding
      <4> QED
        BY <4>2, <3>1
    <3> QED
      BY <3>2, <3>3
  <2> QED
    BY <2>2, <2>4, <2>5 DEF Binding
<1>2. CASE ~IsEvent(m)
  BY <1>2 DEF bind_subscriber_callbacks, Binding, TypeInv
<1> QED
  BY <1>1, <1>2
-----------------------------------------------------------------------------
(* The steps of a task that stay inside _run.                              *)
LEMMA InnerBinding ==
  ASSUME IInv, Inner, NEW m, HasTask(m), NEW p \in Phase \ {"new"},
         phase' = [phase EXCEPT ![m] = p]
  PROVE  callbacks' \subseteq Triggered /\ tries' \in [Messages -> Nat] /\ Binding'
BY DEF IInv, Inner, HasTask, Live, Binding, TypeInv

(* A timeout: the handler is called again, or the state gets the timeout.  *)
LEMMA RetryRuns ==
  ASSUME IInv, NEW m \in Messages, NEW f, phase[m] \in {"call", "await", "handoff"},
         Keeps(f), CancelsOthers(f, m), f[m] \in {"open", "cancelled"},
         retryOrFail(m, f), UNCHANGED <<queueVars, crashed>>
  PROVE  Runs(m)
<1> USE DEF IInv
<1>1. HasTask(m) /\ phase[m] \in Phase
  BY DEF HasTask, Live, TypeInv
<1>2. child' = [child EXCEPT ![m] = None] /\ child'[m] = None
  BY DEF retryOrFail, TypeInv
<1>3. CASE retries[m] # 0
  <2>1. phase' = [phase EXCEPT ![m] = "call"] /\ phase'[m] = "call" /\ fut' = f
    BY <1>3 DEF retryOrFail, TypeInv
  <2> QED
    BY <2>1, <1>1, <1>2 DEF Runs
<1>4. CASE ~(retries[m] # 0)
  <2>1. phase' = [phase EXCEPT ![m] = "after"] /\ phase'[m] = "after"
        /\ fut' = Settled(f, m, "timeout")
    BY <1>4 DEF retryOrFail, TypeInv
  <2>2. Keeps(fut') /\ CancelsOthers(fut', m) /\ fut'[m] # "open"
    BY <2>1, SettledKeeps DEF Future, CancelsOthers
  <2> QED
    BY <2>1, <2>2, <1>1, <1>2 DEF Runs
<1> QED
  BY <1>3, <1>4

(* The future of an awaited message is cancelled by its waiter only.       *)
LEMMA CancelChild ==
  ASSUME IInv, NEW m \in Messages, phase[m] \in {"await", "handoff"}
  PROVE  LET f == Settled(fut, child[m], "cancelled")
         IN  /\ Keeps(f) /\ \A n \in Messages : CancelsOthers(f, n)
             /\ f[m] \in {"open", "cancelled"}
<1> USE DEF IInv
<1>1. child[m] \in Messages /\ phase[child[m]] \notin {"new", "spawned"}
  BY DEF Waiting
<1>2. Keeps(fut)
  BY DEF Keeps, TypeInv
<1>3. fut[m] \in {"open", "cancelled"}
  BY DEF Settling
<1> QED
  BY <1>1, <1>2, <1>3, SettledKeeps DEF CancelsOthers, Future

(* A step that only settles the state of its own message.                  *)
LEMMA SettleRuns ==
  ASSUME IInv, NEW m \in Messages, HasTask(m), NEW r \in Future \ {"open"},
         child[m] = None \/ HubStopping,
         fut' = Settled(fut, m, r), UNCHANGED <<queueVars, crashed, child>>,
         NEW p \in {"after", "complete"}, phase' = [phase EXCEPT ![m] = p]
  PROVE  Runs(m)
<1> USE DEF IInv
<1>1. Keeps(fut)
  BY DEF Keeps, TypeInv
<1>2. Keeps(fut') /\ CancelsOthers(fut', m) /\ fut'[m] # "open"
  BY <1>1, SettledKeeps DEF CancelsOthers, TypeInv
<1>3. phase'[m] = p
  BY DEF TypeInv
<1> QED
  BY <1>2, <1>3 DEF Runs

\* The steps of a task are taken while it runs.
LEMMA TaskRuns ==
  ASSUME IInv, NEW m \in Messages,
         \/ Begin(m) \/ ShortCircuit(m) \/ HookRaises(m) \/ Return(m) \/ Raise(m)
         \/ Expire(m) \/ Resume(m) \/ HandedOff(m) \/ HandoffStopped(m)
  PROVE  Inner /\ Runs(m)
<1> USE DEF IInv
<1>1. Keeps(fut) /\ CancelsOthers(fut, m)
  BY DEF Keeps, CancelsOthers, TypeInv
<1>2. CASE Begin(m)
  <2>1. phase[m] = "start" /\ child[m] = None /\ fut[m] \in {"open", "cancelled"}
    BY <1>2 DEF Begin, Waiting, Settling
  <2>2. phase' = [phase EXCEPT ![m] = "call"] /\ phase'[m] = "call"
    BY <1>2 DEF Begin, TypeInv
  <2> QED
    BY <1>1, <1>2, <2>1, <2>2 DEF Begin, Inner, Runs, HasTask, Live
<1>3. CASE ShortCircuit(m)
  BY <1>3, SettleRuns DEF ShortCircuit, Inner, HasTask, Live, Waiting, Future
<1>4. CASE Return(m) \/ Raise(m)
  BY <1>4, SettleRuns DEF Return, Raise, Inner, HasTask, Live, Waiting, Future
<1>5. CASE HookRaises(m)
  <2>1. /\ phase[m] \in {"start", "after"} /\ Inner /\ child' = child
        /\ phase' = [phase EXCEPT ![m] = "complete"] /\ phase'[m] = "complete"
        /\ fut' = Settled(fut, m, "error")
    BY <1>5 DEF HookRaises, TypeInv
  <2>2. CASE child[m] = None \/ HubStopping
    BY <2>1, <2>2, SettleRuns DEF Inner, HasTask, Live, Future
  <2>3. CASE child[m] # None /\ ~HubStopping
    <3>1. phase[m] = "after" /\ fut[m] # "open" /\ child[m] \in Messages
      BY <2>1, <2>3 DEF Waiting, Settling, TypeInv
    <3>2. fut' = fut
      BY <2>1, <3>1 DEF Settled, TypeInv
    <3> QED
      BY <1>1, <2>1, <3>1, <3>2 DEF Runs, Inner, HandoffTransparent, HasTask, Live
  <2> QED
    BY <2>2, <2>3
<1>6. CASE Expire(m)
  <2>1. CASE phase[m] = "call" /\ retryOrFail(m, fut)
    BY <1>1, <1>6, <2>1, RetryRuns DEF Expire, Inner, Settling
  <2>2. CASE phase[m] = "await" /\ retryOrFail(m, Settled(fut, child[m], "cancelled"))
    BY <1>6, <2>2, CancelChild, RetryRuns DEF Expire, Inner
  <2> QED
    BY <1>6, <2>1, <2>2 DEF Expire
<1>7. CASE Resume(m)
  <2>1. phase[m] = "await" /\ HasTask(m) /\ Inner /\ fut[m] \in {"open", "cancelled"}
    BY <1>7 DEF Resume, HasTask, Live, Settling
  <2>2. CASE fut[child[m]] = "timeout" /\ retryOrFail(m, fut)
    BY <1>1, <2>1, <2>2, RetryRuns DEF Inner
  <2>3. CASE phase' = [phase EXCEPT ![m] = "call"]
             /\ child' = [child EXCEPT ![m] = None] /\ UNCHANGED fut
    BY <1>1, <2>1, <2>3 DEF Runs, Inner, TypeInv
  <2>4. CASE /\ fut' = Settled(fut, m, "error") /\ phase' = [phase EXCEPT ![m] = "after"]
             /\ child' = [child EXCEPT ![m] = None]
    <3>1. Keeps(fut') /\ CancelsOthers(fut', m) /\ fut'[m] # "open"
      BY <1>1, <2>4, SettledKeeps DEF CancelsOthers, Future
    <3>2. child'[m] = None /\ phase'[m] = "after"
      BY <2>4 DEF TypeInv
    <3> QED
      BY <2>1, <2>4, <3>1, <3>2 DEF Runs, Inner
  <2> QED
    BY <1>7, <2>1, <2>2, <2>3, <2>4 DEF Resume
<1>8. CASE HandedOff(m)
  <2>1. phase[m] = "handoff" /\ HasTask(m) /\ Inner /\ fut[m] \in {"open", "cancelled"}
        /\ child[m] \in Messages
    BY <1>8 DEF HandedOff, HasTask, Live, Settling, Waiting
  <2>2. CASE fut[child[m]] = "timeout" /\ retryOrFail(m, fut)
    BY <1>1, <2>1, <2>2, RetryRuns DEF Inner
  <2>3. CASE /\ fut[child[m]] \in {"result", "error"} /\ UNCHANGED child
             /\ fut' = Settled(fut, m, fut[child[m]])
             /\ phase' = [phase EXCEPT ![m] = "after"]
    <3>1. /\ Keeps(fut') /\ CancelsOthers(fut', m) /\ child[m] # m
          /\ fut'[m] = IF fut[m] = "open" THEN fut[child[m]] ELSE fut[m]
      BY <1>1, <2>1, <2>3, SettledKeeps DEF CancelsOthers, Future
    <3>2. fut'[child[m]] = fut[child[m]]
      BY <2>1, <2>3, <3>1 DEF Keeps
    <3>3. phase'[m] = "after"
      BY <2>3 DEF TypeInv
    <3> QED
      BY <2>1, <2>3, <3>1, <3>2, <3>3 DEF Runs, Inner
  <2> QED
    BY <1>8, <2>1, <2>2, <2>3 DEF HandedOff
<1>9. CASE HandoffStopped(m)
  <2>1. /\ phase[m] = "handoff" /\ HubStopping /\ HasTask(m) /\ child[m] # None
        /\ fut' = Settled(fut, child[m], "cancelled") /\ Inner /\ child' = child
        /\ phase' = [phase EXCEPT ![m] = "after"] /\ phase'[m] = "after"
    BY <1>9, NoneAssumption DEF HandoffStopped, HasTask, Live, Waiting, TypeInv
  <2>2. Keeps(fut') /\ CancelsOthers(fut', m)
    BY <2>1, CancelChild
  <2> QED
    BY <2>1, <2>2 DEF Runs, Inner
<1> QED
  BY <1>2, <1>3, <1>4, <1>5, <1>6, <1>7, <1>8, <1>9
  DEF Begin, ShortCircuit, HookRaises, Return, Raise, Expire, Resume, HandedOff, HandoffStopped

\* So every step of a task keeps the invariant.
LEMMA TaskInv ==
  ASSUME IInv, NEW m \in Messages,
         \/ Begin(m) \/ ShortCircuit(m) \/ HookRaises(m) \/ Return(m) \/ Raise(m)
         \/ Expire(m) \/ Resume(m) \/ HandedOff(m) \/ HandoffStopped(m)
  PROVE  IInv'
<1>1. Inner /\ Runs(m) /\ HasTask(m)
  BY TaskRuns DEF Runs
<1>2. PICK p \in {"call", "after", "complete"} : phase' = [phase EXCEPT ![m] = p]
  BY <1>1 DEF Runs
<1>3. p \in Phase \ {"new"}
  BY DEF Phase
<1>4. callbacks' \subseteq Triggered /\ tries' \in [Messages -> Nat] /\ Binding'
  BY <1>1, <1>2, <1>3, InnerBinding
<1> QED
  BY <1>1, <1>4, RunsInv

(* A rejected sub-message ends the run of m, but its callbacks stay bound. *)
LEMMA SubRejectedInv ==
  ASSUME IInv, NEW m \in Messages, NEW c \in Children[m], SubRejected(m, c)
  PROVE  IInv'
<1> USE DEF IInv
<1>1. c \in Messages /\ phase[m] = "call" /\ HasTask(m) /\ child[m] = None
  BY KindsAssumption DEF SubRejected, HasTask, Live, Waiting
<1>2. phase' = [phase EXCEPT ![m] = "after"] /\ bind_subscriber_callbacks(c)
  BY DEF SubRejected, dispatchRejected
<1>3. \A h \in Triggered : phase[h] = "new" <=> phase'[h] = "new"
  BY <1>1, <1>2, KindsAssumption DEF TypeInv
<1>4. Runs(m)
  BY <1>1, SettleRuns DEF SubRejected, dispatchRejected, Future
<1> QED
  BY <1>1, <1>2, <1>3, <1>4, BindInv, RunsInv
-----------------------------------------------------------------------------
(* The queue accepts c, for a client, a task or the Exchange; m, if it is  *)
(* a message, waits for it.                                                *)
LEMMA AcceptInv ==
  ASSUME IInv, NEW c \in Messages, dispatch(c), UNCHANGED fut,
         (phase[c] = "new" /\ c \notin Triggered) \/ phase[c] = "spawned",
         \/ phase' = [phase EXCEPT ![c] = "queued"] /\ UNCHANGED child
         \/ \E m \in Messages, w \in {"await", "handoff"} :
              /\ phase[m] = "call" /\ child' = [child EXCEPT ![m] = c]
              /\ phase' = [phase EXCEPT ![m] = w, ![c] = "queued"]
  PROVE  IInv'
<1> USE DEF IInv
<1>1. /\ status' = [status EXCEPT ![c] = "PENDING"] /\ history' = history
      /\ stop' = stop /\ crashed' = crashed /\ bind_subscriber_callbacks(c)
      /\ HubStopping' = HubStopping
  BY DEF dispatch, Q!put, Q!PENDING, HubStopping
<1>2. /\ phase' \in [Messages -> Phase] /\ child' \in [Messages -> Messages \union {None}]
      /\ phase'[c] = "queued"
      /\ \A n \in Messages \ {c} :
           \/ phase'[n] = phase[n] /\ child'[n] = child[n]
           \/ phase[n] = "call" /\ phase'[n] \in {"await", "handoff"} /\ child'[n] = c
  BY DEF TypeInv, Phase
<1>3. child'[c] = None
  BY DEF TypeInv, Waiting
<1>4. TypeInv' /\ Binding'
  <2>1. \A h \in Triggered : phase[h] = "new" <=> phase'[h] = "new"
    BY <1>2, KindsAssumption
  <2>2. status' \in [Messages -> StatusSet]
    BY <1>1 DEF TypeInv, StatusSet
  <2> QED
    BY <1>1, <1>2, <2>1, <2>2, BindInv DEF TypeInv
<1>5. Slots'
  BY <1>1, <1>2 DEF Slots, HasTask, Live, TypeInv
<1>6. Settling'
  BY <1>1, <1>2 DEF Settling
<1>7. Waiting'
  BY <1>2, <1>3 DEF Waiting
<1>8. Recorded'
  BY <1>1, <1>2, RecordsKept DEF Keeps, TypeInv
<1>9. SubscriberAfterSuccess'
  <2>1. ASSUME NEW h \in Triggered, phase'[h] # "new" PROVE phase[h] # "new"
    BY <1>2, <2>1, KindsAssumption
  <2> QED
    BY <2>1 DEF SubscriberAfterSuccess
<1>10. HandoffTransparent'
  BY <1>1, <1>2 DEF HandoffTransparent
<1> QED
  BY <1>4, <1>5, <1>6, <1>7, <1>8, <1>9, <1>10

\* Submitting and dispatching keep it.
LEMMA DispatchInv ==
  ASSUME IInv
  PROVE  /\ \A m \in Roots : Submit(m) => IInv'
         /\ \A m \in Messages : \A c \in Children[m] :
              Call(m, c) \/ Emit(m, c) \/ HandOff(m, c) => IInv'
<1>1. ASSUME NEW m \in Roots, Submit(m) PROVE IInv'
  BY <1>1, AcceptInv, KindsAssumption, TriggeredAssumption DEF Submit
<1>2. ASSUME NEW m \in Messages, NEW c \in Children[m], Call(m, c) \/ Emit(m, c) \/ HandOff(m, c)
      PROVE  IInv'
  <2>1. c \in Messages /\ c \notin Triggered
    BY KindsAssumption, TriggeredAssumption
  <2>2. CASE Call(m, c)
    BY <2>1, <2>2, AcceptInv DEF Call
  <2>3. CASE Emit(m, c)
    BY <2>1, <2>3, AcceptInv DEF Emit
  <2>4. CASE HandOff(m, c)
    BY <2>1, <2>4, AcceptInv DEF HandOff
  <2> QED
    BY <1>2, <2>2, <2>3, <2>4
<1> QED
  BY <1>1, <1>2

(* Steps that move no message: the consumer's, a client's, the operator's. *)
LEMMA StillInv ==
  ASSUME IInv, UNCHANGED <<status, history, phase, child>>,
         stop' \in {"running", "hub", "all"}, crashed' \in BOOLEAN,
         callbacks' \subseteq Triggered, tries' \in [Messages -> Nat], Binding',
         HubStopping => HubStopping', stop = "all" => stop' = "all",
         Keeps(fut'),
         \A n \in Messages : fut'[n] = fut[n] \/ (fut'[n] = "cancelled" /\ phase[n] \notin {"new", "spawned"})
  PROVE  IInv'
<1> USE DEF IInv
<1>1. TypeInv'
  BY DEF TypeInv, Keeps
<1>2. Slots'
  BY DEF Slots, HasTask, Keeps
<1>3. Settling' /\ Waiting'
  BY DEF Settling, Waiting
<1>4. Recorded'
  BY RecordsKept
<1>5. SubscriberAfterSuccess'
  BY KindsAssumption DEF SubscriberAfterSuccess, Keeps
<1>6. HandoffTransparent'
  <2> SUFFICES ASSUME NEW n \in Messages,
                      child[n] # None, phase[n] \in {"after", "complete", "ended"},
                      fut'[n] \in {"result", "error"}, ~HubStopping'
               PROVE  fut'[child[n]] = fut'[n]
    BY DEF HandoffTransparent
  <2>1. fut[n] = fut'[n] /\ fut[child[n]] = fut[n] /\ child[n] \in Messages
    BY NoneAssumption DEF HandoffTransparent, TypeInv
  <2> QED
    BY <2>1 DEF Keeps
<1> QED
  BY <1>1, <1>2, <1>3, <1>4, <1>5, <1>6

\* The loop, the stops and the submitters keep it.
LEMMA OutsideInv ==
  ASSUME IInv
  PROVE  /\ Loop => IInv'
         /\ StopHub => IInv'
         /\ StopQueue => IInv'
         /\ \A m \in Roots : SubmitRejected(m) => IInv'
         /\ \A m \in Roots : Cancel(m) => IInv'
<1> USE DEF IInv
<1>a. Keeps(fut)
  BY DEF Keeps, TypeInv
<1>1. ASSUME Loop PROVE IInv'
  BY <1>1, <1>a, StillInv DEF Loop, HubStopping, Binding, TypeInv
<1>2. ASSUME StopHub PROVE IInv'
  BY <1>2, <1>a, StillInv DEF StopHub, HubStopping, Binding, TypeInv
<1>3. ASSUME StopQueue PROVE IInv'
  BY <1>3, <1>a, StillInv DEF StopQueue, HubStopping, Binding, TypeInv
<1>4. ASSUME NEW m \in Roots, SubmitRejected(m) PROVE IInv'
  <2>1. m \in Messages /\ bind_subscriber_callbacks(m) /\ UNCHANGED <<queueVars, crashed, phase, fut, child>>
    BY <1>4, KindsAssumption DEF SubmitRejected, dispatchRejected
  <2>2. callbacks' \subseteq Triggered /\ tries' \in [Messages -> Nat] /\ Binding'
    BY <2>1, BindInv
  <2> QED
    BY <1>a, <2>1, <2>2, StillInv DEF queueVars, HubStopping, TypeInv
<1>5. ASSUME NEW m \in Roots, Cancel(m) PROVE IInv'
  <2>1. /\ m \in Messages /\ phase[m] \notin {"new", "spawned"} /\ fut[m] = "open"
        /\ fut' = [fut EXCEPT ![m] = "cancelled"]
        /\ UNCHANGED <<queueVars, phase, child, tries, callbacks, crashed>>
    BY <1>5, KindsAssumption DEF Cancel, Accepted
  <2>2. Keeps(fut') /\ \A n \in Messages : fut'[n] = fut[n] \/ (n = m /\ fut'[n] = "cancelled")
    BY <2>1 DEF Keeps, TypeInv, Future
  <2> QED
    BY <2>1, <2>2, StillInv DEF queueVars, HubStopping, TypeInv, Binding
<1> QED
  BY <1>1, <1>2, <1>3, <1>4, <1>5
-----------------------------------------------------------------------------
(* The consumer takes m and creates its task.                              *)
LEMMA TakeInv ==
  ASSUME IInv, NEW m \in Messages, Take(m)
  PROVE  IInv'
<1> USE DEF IInv
<1>1. status[m] = "PENDING"
  BY DEF Take, Q!take, Q!IsFirst, Q!Pending, Q!PENDING
<1>2. phase[m] = "queued"
  BY <1>1 DEF Slots, TypeInv, Phase, HasTask, Live
<1>3. /\ status' = [status EXCEPT ![m] = "IN_FLIGHT"] /\ phase' = [phase EXCEPT ![m] = "start"]
      /\ UNCHANGED <<history, stop, fut, child, tries, callbacks, crashed>>
      /\ HubStopping' = HubStopping
  BY DEF Take, Q!take, Q!IN_FLIGHT, HubStopping
<1>4. \A n \in Messages : phase'[n] = IF n = m THEN "start" ELSE phase[n]
  BY <1>3 DEF TypeInv
<1>5. TypeInv'
  BY <1>3 DEF TypeInv, Phase, StatusSet
<1>6. Slots'
  BY <1>3, <1>4 DEF Slots, HasTask, Live, TypeInv
<1>7. Settling' /\ Waiting'
  BY <1>2, <1>3, <1>4 DEF Settling, Waiting
<1>8. Binding'
  BY <1>2, <1>3, <1>4 DEF Binding, TypeInv
<1>9. Recorded'
  BY <1>2, <1>3, <1>4, RecordsKept DEF Keeps, TypeInv
<1>10. SubscriberAfterSuccess' /\ HandoffTransparent'
  BY <1>2, <1>3, <1>4 DEF SubscriberAfterSuccess, HandoffTransparent
<1> QED
  BY <1>5, <1>6, <1>7, <1>8, <1>9, <1>10

\* A bounded append keeps the type of the history.
LEMMA AppendBoundedType ==
  ASSUME NEW S, NEW h \in Seq(S), NEW e \in S
  PROVE  Q!AppendBounded(h, e) \in Seq(S)
<1>1. CASE HistorySize = 0
  BY <1>1 DEF Q!AppendBounded
<1>2. CASE HistorySize # 0 /\ Len(h) < HistorySize
  BY <1>2 DEF Q!AppendBounded
<1>3. CASE HistorySize # 0 /\ ~(Len(h) < HistorySize)
  <2>1. Len(h) \in Nat /\ Len(h) # 0
    BY <1>3, BoundsAssumption
  <2>2. Tail(h) \in Seq(S)
    BY <2>1
  <2> QED
    BY <1>3, <2>2 DEF Q!AppendBounded
<1> QED
  BY <1>1, <1>2, <1>3

(* What complete archives is true of the state.                            *)
LEMMA ArchiveInv ==
  ASSUME IInv, NEW m \in Messages, Finish(m), fut[m] # "cancelled"
  PROVE  Recorded'
<1> USE DEF IInv
<1>1. /\ phase' = [phase EXCEPT ![m] = "ended"] /\ Q!complete(m, OutcomeOf(m))
      /\ phase[m] \in {"after", "complete"} /\ UNCHANGED <<fut, child, stop, crashed>>
  BY DEF Finish
<1>2. m \in Q!Stored
  BY <1>1 DEF Slots, HasTask, Live, Q!Stored, Q!ABSENT
<1>3. history' = Q!AppendBounded(history, <<m, OutcomeOf(m)>>)
  BY <1>1, <1>2 DEF Q!complete
<1>4. \A n \in Messages : phase'[n] = IF n = m THEN "ended" ELSE phase[n]
  BY <1>1 DEF TypeInv
<1>5. Records \subseteq Records'
  <2>1. ASSUME NEW e \in Records PROVE e \in Records'
    <3>1. e \in Messages \X Q!Outcome /\ e[1] \in Messages
      BY <2>1 DEF Records
    <3> QED
      BY <1>1, <1>4, <2>1, <3>1 DEF Records, HubStopping
  <2> QED
    BY <2>1
<1>6. <<m, OutcomeOf(m)>> \in Records'
  <2>1. OutcomeOf(m) \in Q!Outcome
    BY DEF OutcomeOf, Q!Outcome
  <2>2. \/ OutcomeOf(m) = Q!DONE /\ fut[m] = "result"
        \/ OutcomeOf(m) = Q!FAILED /\ fut[m] \in {"error", "timeout"}
        \/ OutcomeOf(m) = Q!DONE /\ HubStopping /\ child[m] # None
    <3>1. fut[m] # "open" \/ (child[m] # None /\ HubStopping)
      BY <1>1 DEF Settling
    <3>2. fut[m] \in {"open", "result", "error", "timeout"}
      BY DEF TypeInv, Future
    <3> QED
      BY <3>1, <3>2 DEF OutcomeOf
  <2>3. /\ phase'[m] = "ended" /\ fut'[m] = fut[m] /\ child'[m] = child[m]
        /\ HubStopping' = HubStopping
    BY <1>1, <1>4 DEF HubStopping
  <2>4. <<m, OutcomeOf(m)>> \in Messages \X Q!Outcome
    BY <2>1
  <2> QED
    BY <2>2, <2>3, <2>4 DEF Records
<1>7. history \in Seq(Records')
  BY <1>5, SeqMonotonic DEF Recorded
<1> QED
  BY <1>3, <1>6, <1>7, AppendBoundedType DEF Recorded

(* The end of a task: the entry is archived, or lost with the task.        *)
LEMMA EndInv ==
  ASSUME IInv, NEW m \in Messages, HasTask(m), NEW p \in {"ended", "lost"},
         phase' = [phase EXCEPT ![m] = p], Recorded',
         UNCHANGED <<stop, child, tries, callbacks, crashed>>,
         Keeps(fut'), CancelsOthers(fut', m),
         IF p = "ended"
         THEN /\ status' = [status EXCEPT ![m] = "ABSENT"] /\ fut' = fut
              /\ phase[m] \in {"after", "complete"}
         ELSE status' = status /\ (fut'[m] = "cancelled" \/ stop = "all")
  PROVE  IInv'
<1> USE DEF IInv
<1>1. \A n \in Messages : phase'[n] = IF n = m THEN p ELSE phase[n]
  BY DEF TypeInv
<1>2. phase[m] \notin {"new", "spawned", "queued", "ended", "lost"}
  BY DEF HasTask, Live
<1>3. HubStopping' = HubStopping
  BY DEF HubStopping
<1>4. TypeInv'
  BY DEF TypeInv, Phase, StatusSet, Keeps
<1>5. Slots'
  <2>1. \A n \in Messages \ {m} : status'[n] = status[n] /\ HasTask(n)' = HasTask(n)
    BY <1>1 DEF TypeInv, HasTask
  <2>2. p = "ended" => status'[m] = "ABSENT"
    BY DEF TypeInv
  <2>3. p = "lost" => status'[m] = "IN_FLIGHT" /\ (fut'[m] = "cancelled" \/ stop' = "all")
    BY DEF Slots
  <2>4. ~HasTask(m)'
    BY <1>1 DEF HasTask, Live
  <2> QED
    BY <1>1, <2>1, <2>2, <2>3, <2>4 DEF Slots, Keeps
<1>6. Settling'
  BY <1>1, <1>2, <1>3 DEF Settling, CancelsOthers
<1>7. Waiting'
  BY <1>1, <1>2 DEF Waiting
<1>8. Binding'
  BY <1>1, <1>2 DEF Binding, TypeInv
<1>9. SubscriberAfterSuccess'
  BY <1>1, <1>2, KindsAssumption DEF SubscriberAfterSuccess, Keeps
<1>10. HandoffTransparent'
  <2> SUFFICES ASSUME NEW n \in Messages,
                      child[n] # None, phase'[n] \in {"after", "complete", "ended"},
                      fut'[n] \in {"result", "error"}, ~HubStopping
               PROVE  fut'[child[n]] = fut'[n]
    BY <1>3 DEF HandoffTransparent
  <2>1. phase[n] \in {"after", "complete", "ended"} /\ fut'[n] = fut[n]
    BY <1>1 DEF CancelsOthers
  <2>2. fut[child[n]] = fut[n] /\ child[n] \in Messages
    BY <2>1, NoneAssumption DEF HandoffTransparent, TypeInv
  <2> QED
    BY <2>1, <2>2 DEF Keeps
<1> QED
  BY <1>4, <1>5, <1>6, <1>7, <1>8, <1>9, <1>10

\* The end of a task keeps it.
LEMMA FinishInv ==
  ASSUME IInv, NEW m \in Messages, Finish(m)
  PROVE  IInv'
<1> USE DEF IInv
<1>1. /\ phase[m] \in {"after", "complete"} /\ HasTask(m)
      /\ UNCHANGED <<stop, fut, child, tries, callbacks, crashed>>
  BY DEF Finish, HasTask, Live
<1>2. Keeps(fut') /\ CancelsOthers(fut', m)
  BY <1>1 DEF Keeps, CancelsOthers, TypeInv
<1>3. CASE fut[m] = "cancelled"
  <2>1. phase' = [phase EXCEPT ![m] = "lost"] /\ UNCHANGED <<status, history>>
    BY <1>3 DEF Finish
  <2>2. Recorded'
    <3>1. \A n \in Messages : phase[n] = "ended" => phase'[n] = "ended" /\ child'[n] = child[n]
      BY <1>1, <2>1 DEF TypeInv
    <3> QED
      BY <1>1, <1>2, <2>1, <3>1, RecordsKept DEF HubStopping
  <2> QED
    BY <1>1, <1>2, <1>3, <2>1, <2>2, EndInv
<1>4. CASE fut[m] # "cancelled"
  <2>1. m \in Q!Stored
    BY <1>1 DEF Slots, Q!Stored, Q!ABSENT
  <2>2. phase' = [phase EXCEPT ![m] = "ended"] /\ status' = [status EXCEPT ![m] = "ABSENT"]
    BY <1>4, <2>1 DEF Finish, Q!complete, Q!ABSENT
  <2> QED
    BY <1>1, <1>2, <1>4, <2>2, ArchiveInv, EndInv
<1> QED
  BY <1>3, <1>4

\* A cancelled task keeps it.
LEMMA CancelTaskInv ==
  ASSUME IInv, NEW m \in Messages, CancelTask(m)
  PROVE  IInv'
<1> USE DEF IInv
<1>1. /\ stop = "all" /\ HasTask(m) /\ phase' = [phase EXCEPT ![m] = "lost"]
      /\ UNCHANGED <<status, history, stop, child, tries, callbacks, crashed>>
  BY DEF CancelTask, Inner, queueVars
<1>2. Keeps(fut') /\ CancelsOthers(fut', m)
  <2>1. CASE phase[m] \in {"await", "handoff"}
    BY <2>1, CancelChild DEF CancelTask
  <2>2. CASE phase[m] \notin {"await", "handoff"}
    BY <2>2 DEF CancelTask, Keeps, CancelsOthers, TypeInv
  <2> QED
    BY <2>1, <2>2
<1>3. Recorded'
  <2>1. \A n \in Messages : phase[n] = "ended" => phase'[n] = "ended" /\ child'[n] = child[n]
    BY <1>1 DEF TypeInv, HasTask, Live
  <2> QED
    BY <1>1, <1>2, <2>1, RecordsKept DEF HubStopping
<1> QED
  BY <1>1, <1>2, <1>3, EndInv
-----------------------------------------------------------------------------
(* The command of a subscriber is created, or given up.                    *)
LEMMA SpawnInv ==
  ASSUME IInv, NEW h \in Triggered, phase[h] \in {"new", "spawned"},
         NEW p \in {"new", "spawned"}, phase' = [phase EXCEPT ![h] = p],
         p = "spawned" => fut[SourceOf[h]] = "result",
         UNCHANGED <<status, history, fut, child>>,
         stop' \in {"running", "hub", "all"}, crashed' \in BOOLEAN,
         HubStopping => HubStopping', stop = "all" => stop' = "all",
         callbacks' \subseteq Triggered, tries' \in [Messages -> Nat], Binding'
  PROVE  IInv'
<1> USE DEF IInv
<1>1. h \in Messages
  BY KindsAssumption
<1>2. \A n \in Messages : phase'[n] = IF n = h THEN p ELSE phase[n]
  BY <1>1 DEF TypeInv
<1>3. TypeInv'
  BY DEF TypeInv, Phase
<1>4. Slots'
  BY <1>1, <1>2 DEF Slots, HasTask, Live
<1>5. Settling'
  BY <1>2 DEF Settling
<1>6. Waiting'
  BY <1>2 DEF Waiting
<1>7. Recorded'
  BY <1>1, <1>2, RecordsKept DEF Keeps, TypeInv
<1>8. SubscriberAfterSuccess'
  BY <1>2, KindsAssumption DEF SubscriberAfterSuccess
<1>9. HandoffTransparent'
  BY <1>2 DEF HandoffTransparent
<1> QED
  BY <1>3, <1>4, <1>5, <1>6, <1>7, <1>8, <1>9

\* Event handlers, and the commands they trigger, keep it.
LEMMA SubscriberInv ==
  ASSUME IInv, NEW h \in Triggered, SubscriberDone(h) \/ DispatchTriggered(h)
  PROVE  IInv'
<1> USE DEF IInv
<1>1. h \in Messages
  BY KindsAssumption
<1>2. CASE SubscriberDone(h)
  <2>1. /\ h \in callbacks /\ phase[h] = "new" /\ callbacks' = callbacks \ {h}
        /\ UNCHANGED <<queueVars, fut, child, tries, crashed>>
    BY <1>2 DEF SubscriberDone, Binding
  <2>2. PICK p \in {"new", "spawned"} :
          phase' = [phase EXCEPT ![h] = p] /\ (p = "spawned" => fut[SourceOf[h]] = "result")
    <3>1. CASE ~ExchangeStopping /\ fut[SourceOf[h]] = "result"
      BY <1>2, <3>1 DEF SubscriberDone
    <3>2. CASE ~(~ExchangeStopping /\ fut[SourceOf[h]] = "result")
      <4>1. phase' = [phase EXCEPT ![h] = "new"]
        BY <1>2, <2>1, <3>2 DEF SubscriberDone, TypeInv
      <4> QED
        BY <4>1
    <3> QED
      BY <3>1, <3>2
  <2>3. \A n \in Messages : phase'[n] = IF n = h THEN p ELSE phase[n]
    BY <1>1, <2>2 DEF TypeInv
  <2>4. callbacks' \subseteq Triggered /\ tries' \in [Messages -> Nat] /\ Binding'
    BY <2>1, <2>3, KindsAssumption DEF Binding, TypeInv
  <2> QED
    BY <2>1, <2>2, <2>4, SpawnInv DEF queueVars, HubStopping, TypeInv
<1>3. CASE DispatchTriggered(h)
  <2>1. phase[h] = "spawned" /\ UNCHANGED <<fut, child>> /\ h \notin callbacks
    BY <1>3 DEF DispatchTriggered, Binding
  <2>2. CASE dispatch(h) /\ phase' = [phase EXCEPT ![h] = "queued"]
    BY <1>1, <2>1, <2>2, AcceptInv
  <2>3. CASE /\ phase' = [phase EXCEPT ![h] = "new"]
             /\ UNCHANGED <<status, history, tries, callbacks>>
             /\ \/ crashed' = TRUE /\ stop' = IF stop = "running" THEN "hub" ELSE stop
                \/ UNCHANGED <<stop, crashed>>
    <3>1. \A n \in Messages : phase'[n] = IF n = h THEN "new" ELSE phase[n]
      BY <1>1, <2>3 DEF TypeInv
    <3>2. callbacks' \subseteq Triggered /\ tries' \in [Messages -> Nat] /\ Binding'
      BY <2>1, <2>3, <3>1, KindsAssumption DEF Binding, TypeInv
    <3>3. /\ stop' \in {"running", "hub", "all"} /\ crashed' \in BOOLEAN
          /\ HubStopping => HubStopping'
          /\ stop = "all" => stop' = "all"
      BY <2>3 DEF HubStopping, TypeInv
    <3> QED
      BY <2>1, <2>3, <3>2, <3>3, SpawnInv
  <2>4. CASE /\ Q!IsFull /\ phase' = [phase EXCEPT ![h] = "new"] /\ crashed' = TRUE
             /\ stop' = (IF stop = "running" THEN "hub" ELSE stop)
             /\ UNCHANGED <<status, pos, nextPos, history, notify, consumer, tries, callbacks>>
    BY <2>3, <2>4
  <2>5. CASE /\ stop = "all" /\ phase' = [phase EXCEPT ![h] = "new"]
             /\ UNCHANGED <<queueVars, tries, callbacks, crashed>>
    BY <2>3, <2>5 DEF queueVars
  <2> QED
    BY <1>3, <2>2, <2>4, <2>5 DEF DispatchTriggered
<1> QED
  BY <1>2, <1>3
-----------------------------------------------------------------------------
(* Every step keeps the invariant.                                         *)
LEMMA NextInv == IInv /\ [Next]_vars => IInv'
<1> SUFFICES ASSUME IInv, [Next]_vars PROVE IInv'
  OBVIOUS
<1>1. ASSUME NEW m \in Messages, Take(m) PROVE IInv'
  BY <1>1, TakeInv
<1>2. CASE Loop \/ StopHub \/ StopQueue
  BY <1>2, OutsideInv
<1>3. ASSUME NEW m \in Roots, Submit(m) \/ SubmitRejected(m) \/ Cancel(m) PROVE IInv'
  BY <1>3, OutsideInv, DispatchInv
<1>4. ASSUME NEW m \in Messages, TaskStep(m) PROVE IInv'
  <2>1. CASE Finish(m)
    BY <2>1, FinishInv
  <2>2. CASE \/ Begin(m) \/ ShortCircuit(m) \/ HookRaises(m) \/ Return(m) \/ Raise(m)
             \/ Expire(m) \/ Resume(m) \/ HandedOff(m) \/ HandoffStopped(m)
    BY <2>2, TaskInv
  <2>3. ASSUME NEW c \in Children[m],
               Call(m, c) \/ Emit(m, c) \/ HandOff(m, c) \/ SubRejected(m, c)
        PROVE  IInv'
    BY <2>3, DispatchInv, SubRejectedInv
  <2> QED
    BY <1>4, <2>1, <2>2, <2>3 DEF TaskStep
<1>5. ASSUME NEW m \in Messages, CancelTask(m) PROVE IInv'
  BY <1>5, CancelTaskInv
<1>6. ASSUME NEW h \in Triggered, SubscriberDone(h) \/ DispatchTriggered(h) PROVE IInv'
  BY <1>6, SubscriberInv
<1>7. CASE UNCHANGED vars
  <2>1. UNCHANGED <<status, history, phase, child, fut, stop, crashed, callbacks, tries>>
    BY <1>7 DEF vars, queueVars
  <2> QED
    BY <2>1, StillInv DEF IInv, Binding, HubStopping, Keeps, TypeInv
<1>8. CASE Next
  <2>1. \/ \E m \in Messages : Take(m)
        \/ Loop \/ StopHub \/ StopQueue
        \/ \E m \in Roots : Submit(m) \/ SubmitRejected(m) \/ Cancel(m)
        \/ \E m \in Messages : TaskStep(m) \/ CancelTask(m)
        \/ \E h \in Triggered : SubscriberDone(h) \/ DispatchTriggered(h)
    BY <1>8 DEF Next
  <2> QED
    BY <2>1, <1>1, <1>2, <1>3, <1>4, <1>5, <1>6
<1> QED
  BY <1>7, <1>8

\* The invariant holds in every state.
LEMMA Inductive == Spec => []IInv
BY InitInv, NextInv, PTL DEF Spec

(* The invariant says what the properties of the specification say.        *)
LEMMA Consequences == IInv => SlotAccounted /\ ArchiveTruthful /\ NoOrphanWait
<1> SUFFICES ASSUME IInv PROVE SlotAccounted /\ ArchiveTruthful /\ NoOrphanWait
  OBVIOUS
<1> USE DEF IInv
<1>1. SlotAccounted
  BY DEF SlotAccounted, Slots, Q!IN_FLIGHT, TypeInv, Phase, HasTask, Live
<1>2. ArchiveTruthful
  <2> SUFFICES ASSUME NEW i \in DOMAIN history
               PROVE  LET m == history[i][1]
                      IN \/ history[i][2] = Q!DONE /\ fut[m] = "result"
                         \/ history[i][2] = Q!FAILED /\ fut[m] \in {"error", "timeout"}
                         \/ history[i][2] = Q!DONE /\ HubStopping /\ child[m] # None
    BY DEF ArchiveTruthful
  <2>1. history[i] \in Records
    BY ElementOfSeq DEF Recorded
  <2> QED
    BY <2>1 DEF Records
<1>3. NoOrphanWait
  <2> SUFFICES ASSUME NEW m \in Messages, phase[m] \in {"await", "handoff"}, stop # "all"
               PROVE  LET c == child[m]
                      IN \/ fut[c] # "open" \/ status[c] = Q!PENDING \/ HasTask(c)
                         \/ HubStopping /\ child[c] # None
    BY DEF NoOrphanWait
  <2>1. child[m] \in Messages /\ phase[child[m]] \notin {"new", "spawned"}
    BY DEF Waiting
  <2>2. phase[child[m]] = "queued" => status[child[m]] = "PENDING"
    BY <2>1 DEF Slots
  <2>3. phase[child[m]] = "lost" => fut[child[m]] = "cancelled"
    BY <2>1 DEF Slots
  <2>4. phase[child[m]] = "ended" =>
          fut[child[m]] # "open" \/ (child[child[m]] # None /\ HubStopping)
    BY <2>1 DEF Settling
  <2>5. phase[child[m]] \in Live \union {"queued", "lost", "ended"}
    BY <2>1 DEF TypeInv, Phase, Live
  <2> QED
    BY <2>2, <2>3, <2>4, <2>5 DEF Q!PENDING, HasTask
<1> QED
  BY <1>1, <1>2, <1>3
-----------------------------------------------------------------------------
(* A task holds the place of its message from take to complete, and only a *)
(* cancellation leaves a place without a task: in a service that runs, the *)
(* capacity that is gone for good is that of cancelled messages.           *)
THEOREM HubSlotAccounted == Spec => []SlotAccounted
BY Inductive, Consequences, PTL

(* What the history says of a message agrees with its state, however the   *)
(* run of its handler ended and however often it was retried.              *)
THEOREM HubArchiveTruthful == Spec => []ArchiveTruthful
BY Inductive, Consequences, PTL

(* A suspended handler waits for something that can still answer, however  *)
(* deep the nesting of commands and handoffs.                              *)
THEOREM HubNoOrphanWait == Spec => []NoOrphanWait
BY Inductive, Consequences, PTL

(* The outcome of a delegating message is that of the message it handed    *)
(* off to, through every chain of handoffs.                                *)
THEOREM HubHandoffTransparent == Spec => []HandoffTransparent
<1>1. IInv => HandoffTransparent
  BY DEF IInv
<1> QED
  BY <1>1, Inductive, PTL

(* The command of a subscriber exists only after its event has succeeded,  *)
(* however often the event was dispatched before it was accepted.          *)
THEOREM HubSubscriberAfterSuccess == Spec => []SubscriberAfterSuccess
<1>1. IInv => SubscriberAfterSuccess
  BY DEF IInv
<1> QED
  BY <1>1, Inductive, PTL
-----------------------------------------------------------------------------
(* The hub is a client of the queue as Queue.tla allows: of its steps, all *)
(* that matter to the queue are steps of the queue.                        *)
QSteps == Q!Next \/ UNCHANGED Q!vars

TasksOf == [n \in Messages |-> IF HasTask(n) THEN 1 ELSE 0]
PutsOf  == [n \in Messages |-> IF Accepted(n) THEN 1 ELSE 0]

\* No message gets a task, loses it, or is accepted.
LEMMA QuietStep ==
  ASSUME UNCHANGED queueVars,
         \A n \in Messages : (HasTask(n)' <=> HasTask(n)) /\ (Accepted(n)' <=> Accepted(n))
  PROVE  UNCHANGED Q!vars
BY DEF queueVars, Q!vars

\* A task ends and its entry stays.
LEMMA LoseStep ==
  ASSUME TypeInv, NEW m \in Messages, HasTask(m), Q!Yielded, UNCHANGED queueVars,
         phase' = [phase EXCEPT ![m] = "lost"]
  PROVE  Q!Lose(m)
<1>1. \A n \in Messages : phase'[n] = IF n = m THEN "lost" ELSE phase[n]
  BY DEF TypeInv
<1>2. TasksOf' = [TasksOf EXCEPT ![m] = @ - 1] /\ TasksOf[m] > 0
  <2>1. ~HasTask(m)' /\ \A n \in Messages \ {m} : HasTask(n)' <=> HasTask(n)
    BY <1>1 DEF HasTask, Live
  <2>2. TasksOf[m] = 1 /\ TasksOf'[m] = 0 /\ \A n \in Messages \ {m} : TasksOf'[n] = TasksOf[n]
    BY <2>1 DEF TasksOf
  <2>3. TasksOf \in [Messages -> {0, 1}] /\ TasksOf' \in [Messages -> {0, 1}]
    BY DEF TasksOf
  <2> QED
    BY <2>2, <2>3
<1>3. PutsOf' = PutsOf
  <2>1. \A n \in Messages : Accepted(n)' <=> Accepted(n)
    BY <1>1 DEF Accepted, HasTask, Live
  <2> QED
    BY <2>1 DEF PutsOf
<1> QED
  BY <1>2, <1>3 DEF Q!Lose, Q!store, queueVars, TasksOf, PutsOf

\* The queue accepts c.
LEMMA PutStep ==
  ASSUME TypeInv, Slots, NEW c \in Messages, dispatch(c), Q!Yielded,
         phase[c] \in {"new", "spawned"},
         phase' \in [Messages -> Phase], phase'[c] = "queued",
         \A n \in Messages \ {c} :
           phase'[n] = phase[n] \/ (phase[n] = "call" /\ phase'[n] \in {"await", "handoff"})
  PROVE  Q!Put(c)
<1>1. TasksOf' = TasksOf /\ TasksOf[c] = 0
  BY DEF TasksOf, HasTask, Live
<1>2. PutsOf' = [PutsOf EXCEPT ![c] = @ + 1] /\ PutsOf[c] < 1
  <2>1. ~Accepted(c) /\ Accepted(c)' /\ \A n \in Messages \ {c} : Accepted(n)' <=> Accepted(n)
    BY DEF Accepted
  <2>2. PutsOf[c] = 0 /\ PutsOf'[c] = 1 /\ \A n \in Messages \ {c} : PutsOf'[n] = PutsOf[n]
    BY <2>1 DEF PutsOf
  <2>3. PutsOf \in [Messages -> {0, 1}] /\ PutsOf' \in [Messages -> {0, 1}]
    BY DEF PutsOf
  <2> QED
    BY <2>2, <2>3
<1>3. status[c] = "ABSENT"
  BY DEF Slots
<1> QED
  BY <1>1, <1>2, <1>3 DEF Q!Put, dispatch, Q!IN_FLIGHT, TasksOf, PutsOf

\* A take of the consumer is a take of the queue.
LEMMA TakeStep ==
  ASSUME IInv, NEW m \in Messages, Take(m)
  PROVE  Q!Take(m)
<1> USE DEF IInv
<1>1. phase[m] = "queued"
  <2>1. status[m] = "PENDING"
    BY DEF Take, Q!take, Q!IsFirst, Q!Pending, Q!PENDING
  <2> QED
    BY <2>1 DEF Slots, TypeInv, Phase, HasTask, Live
<1>2. \A n \in Messages : phase'[n] = IF n = m THEN "start" ELSE phase[n]
  BY DEF Take, TypeInv
<1>3. TasksOf' = [TasksOf EXCEPT ![m] = @ + 1]
  <2>1. ~HasTask(m) /\ HasTask(m)' /\ \A n \in Messages \ {m} : HasTask(n)' <=> HasTask(n)
    BY <1>1, <1>2 DEF HasTask, Live
  <2>2. TasksOf[m] = 0 /\ TasksOf'[m] = 1 /\ \A n \in Messages \ {m} : TasksOf'[n] = TasksOf[n]
    BY <2>1 DEF TasksOf
  <2>3. TasksOf \in [Messages -> {0, 1}] /\ TasksOf' \in [Messages -> {0, 1}]
    BY DEF TasksOf
  <2> QED
    BY <2>2, <2>3
<1>4. PutsOf' = PutsOf
  <2>1. \A n \in Messages : Accepted(n)' <=> Accepted(n)
    BY <1>1, <1>2 DEF Accepted
  <2> QED
    BY <2>1 DEF PutsOf
<1> QED
  BY <1>3, <1>4 DEF Take, Q!Take, TasksOf, PutsOf

\* The end of a task completes or loses its message in the queue.
LEMMA FinishStep ==
  ASSUME IInv, NEW m \in Messages, Finish(m), Q!Yielded
  PROVE  Q!Lose(m) \/ \E outcome \in Q!Outcome : Q!Complete(m, outcome)
<1> USE DEF IInv
<1>1. HasTask(m)
  BY DEF Finish, HasTask, Live
<1>2. CASE fut[m] = "cancelled"
  BY <1>1, <1>2, LoseStep DEF Finish, queueVars
<1>3. CASE fut[m] # "cancelled"
  <2>1. \A n \in Messages : phase'[n] = IF n = m THEN "ended" ELSE phase[n]
    BY <1>3 DEF Finish, TypeInv
  <2>2. TasksOf' = [TasksOf EXCEPT ![m] = @ - 1] /\ TasksOf[m] > 0
    <3>1. ~HasTask(m)' /\ \A n \in Messages \ {m} : HasTask(n)' <=> HasTask(n)
      BY <2>1 DEF HasTask, Live
    <3>2. TasksOf[m] = 1 /\ TasksOf'[m] = 0 /\ \A n \in Messages \ {m} : TasksOf'[n] = TasksOf[n]
      BY <1>1, <3>1 DEF TasksOf
    <3>3. TasksOf \in [Messages -> {0, 1}] /\ TasksOf' \in [Messages -> {0, 1}]
      BY DEF TasksOf
    <3> QED
      BY <3>2, <3>3
  <2>3. PutsOf' = PutsOf
    <3>1. \A n \in Messages : Accepted(n)' <=> Accepted(n)
      BY <1>1, <2>1 DEF Accepted, HasTask, Live
    <3> QED
      BY <3>1 DEF PutsOf
  <2>4. OutcomeOf(m) \in Q!Outcome
    BY DEF OutcomeOf, Q!Outcome
  <2>5. Q!complete(m, OutcomeOf(m)) /\ UNCHANGED <<notify, consumer, stop>>
    BY <1>3 DEF Finish
  <2>6. Q!Complete(m, OutcomeOf(m))
    BY <2>2, <2>3, <2>5 DEF Q!Complete, TasksOf, PutsOf
  <2> QED
    BY <2>4, <2>6
<1> QED
  BY <1>2, <1>3

\* The steps of a task that accept nothing.
LEMMA RunsQuiet ==
  ASSUME IInv, NEW m \in Messages, Runs(m)
  PROVE  UNCHANGED Q!vars
<1>1. PICK p \in {"call", "after", "complete"} : phase' = [phase EXCEPT ![m] = p]
  BY DEF Runs
<1>2. \A n \in Messages : phase'[n] = IF n = m THEN p ELSE phase[n]
  BY <1>1 DEF IInv, TypeInv
<1>3. \A n \in Messages : (HasTask(n)' <=> HasTask(n)) /\ (Accepted(n)' <=> Accepted(n))
  BY <1>2 DEF Runs, HasTask, Accepted, Live
<1> QED
  BY <1>3, QuietStep DEF Runs

\* The steps of a task are steps of the queue, or leave it alone.
LEMMA TaskQueueStep ==
  ASSUME IInv, NEW m \in Messages, TaskStep(m), Q!Yielded
  PROVE  QSteps
<1> USE DEF IInv
<1>1. CASE Finish(m)
  BY <1>1, FinishStep DEF QSteps, Q!Next
<1>2. CASE \/ Begin(m) \/ ShortCircuit(m) \/ HookRaises(m) \/ Return(m) \/ Raise(m)
           \/ Expire(m) \/ Resume(m) \/ HandedOff(m) \/ HandoffStopped(m)
  BY <1>2, TaskRuns, RunsQuiet DEF QSteps
<1>3. ASSUME NEW c \in Children[m], Call(m, c) \/ Emit(m, c) \/ HandOff(m, c)
      PROVE  QSteps
  <2>1. c \in Messages
    BY KindsAssumption
  <2>2. /\ dispatch(c) /\ phase[c] = "new"
        /\ \/ phase' = [phase EXCEPT ![c] = "queued"]
           \/ /\ phase[m] = "call"
              /\ \E w \in {"await", "handoff"} : phase' = [phase EXCEPT ![m] = w, ![c] = "queued"]
    BY <1>3 DEF Call, Emit, HandOff
  <2>3. /\ phase' \in [Messages -> Phase] /\ phase'[c] = "queued"
        /\ \A n \in Messages \ {c} :
             phase'[n] = phase[n] \/ (phase[n] = "call" /\ phase'[n] \in {"await", "handoff"})
    BY <2>1, <2>2 DEF TypeInv, Phase
  <2> QED
    BY <2>1, <2>2, <2>3, PutStep DEF QSteps, Q!Next
<1>4. ASSUME NEW c \in Children[m], SubRejected(m, c)
      PROVE  QSteps
  <2>1. \A n \in Messages : phase'[n] = IF n = m THEN "after" ELSE phase[n]
    BY <1>4 DEF SubRejected, TypeInv
  <2>2. phase[m] = "call" /\ UNCHANGED queueVars
    BY <1>4 DEF SubRejected, dispatchRejected
  <2>3. \A n \in Messages : (HasTask(n)' <=> HasTask(n)) /\ (Accepted(n)' <=> Accepted(n))
    BY <2>1, <2>2 DEF HasTask, Accepted, Live
  <2> QED
    BY <2>2, <2>3, QuietStep DEF QSteps
<1> QED
  BY <1>1, <1>2, <1>3, <1>4 DEF TaskStep

\* So are those of event handlers.
LEMMA SubscriberStep ==
  ASSUME IInv, NEW h \in Triggered, SubscriberDone(h) \/ DispatchTriggered(h), Q!Yielded
  PROVE  QSteps
<1> USE DEF IInv
<1>1. h \in Messages
  BY KindsAssumption
<1>2. CASE DispatchTriggered(h) /\ dispatch(h) /\ phase' = [phase EXCEPT ![h] = "queued"]
  <2>1. /\ phase' \in [Messages -> Phase] /\ phase'[h] = "queued" /\ phase[h] = "spawned"
        /\ \A n \in Messages \ {h} : phase'[n] = phase[n]
    BY <1>1, <1>2 DEF DispatchTriggered, TypeInv, Phase
  <2> QED
    BY <1>1, <1>2, <2>1, PutStep DEF QSteps, Q!Next
<1>3. ASSUME NEW p \in {"new", "spawned"}, phase[h] \in {"new", "spawned"},
             phase' = [phase EXCEPT ![h] = p]
      PROVE  \A n \in Messages : (HasTask(n)' <=> HasTask(n)) /\ (Accepted(n)' <=> Accepted(n))
  <2>1. \A n \in Messages : phase'[n] = IF n = h THEN p ELSE phase[n]
    BY <1>3 DEF TypeInv
  <2> QED
    BY <1>3, <2>1 DEF HasTask, Accepted, Live
<1>4. CASE SubscriberDone(h)
  <2>1. phase[h] = "new" /\ UNCHANGED queueVars
    BY <1>4 DEF SubscriberDone, Binding
  <2>2. \E p \in {"new", "spawned"} : phase' = [phase EXCEPT ![h] = p]
    <3>1. CASE ~ExchangeStopping /\ fut[SourceOf[h]] = "result"
      BY <1>4, <3>1 DEF SubscriberDone
    <3>2. CASE ~(~ExchangeStopping /\ fut[SourceOf[h]] = "result")
      BY <1>4, <2>1, <3>2 DEF SubscriberDone, TypeInv
    <3> QED
      BY <3>1, <3>2
  <2> QED
    BY <1>3, <2>1, <2>2, QuietStep DEF QSteps
<1>5. CASE /\ DispatchTriggered(h) /\ phase' = [phase EXCEPT ![h] = "new"]
           /\ UNCHANGED <<status, pos, nextPos, history, notify, consumer>>
           /\ \/ stop' = stop
              \/ stop = "running" /\ stop' = "hub"
  <2>1. \A n \in Messages : (HasTask(n)' <=> HasTask(n)) /\ (Accepted(n)' <=> Accepted(n))
    BY <1>3, <1>5 DEF DispatchTriggered
  <2>2. CASE stop' = stop
    BY <1>5, <2>1, <2>2, QuietStep DEF queueVars, QSteps
  <2>3. CASE stop = "running" /\ stop' = "hub"
    BY <1>5, <2>1, <2>3 DEF QSteps, Q!Next, Q!StopHub, Q!store
  <2> QED
    BY <1>5, <2>2, <2>3
<1>6. CASE DispatchTriggered(h)
  <2>1. CASE dispatch(h) /\ phase' = [phase EXCEPT ![h] = "queued"]
    BY <1>2, <1>6, <2>1
  <2>2. CASE /\ Q!IsFull /\ phase' = [phase EXCEPT ![h] = "new"] /\ crashed' = TRUE
             /\ stop' = (IF stop = "running" THEN "hub" ELSE stop)
             /\ UNCHANGED <<status, pos, nextPos, history, notify, consumer, tries, callbacks>>
    BY <1>5, <1>6, <2>2
  <2>3. CASE /\ stop = "all" /\ phase' = [phase EXCEPT ![h] = "new"]
             /\ UNCHANGED <<queueVars, tries, callbacks, crashed>>
    BY <1>5, <1>6, <2>3 DEF queueVars
  <2> QED
    BY <1>6, <2>1, <2>2, <2>3 DEF DispatchTriggered
<1> QED
  BY <1>4, <1>6

\* So is every step of the hub.
LEMMA StepQueueStep == IInv /\ [Next]_vars => QSteps
<1> SUFFICES ASSUME IInv, [Next]_vars PROVE QSteps
  OBVIOUS
<1> USE DEF IInv
<1>a. ASSUME UNCHANGED phase
      PROVE  \A n \in Messages : (HasTask(n)' <=> HasTask(n)) /\ (Accepted(n)' <=> Accepted(n))
  BY <1>a DEF HasTask, Accepted
<1>1. ASSUME NEW m \in Messages, Take(m) PROVE QSteps
  BY <1>1, TakeStep DEF QSteps, Q!Next
<1>2. CASE Loop
  <2>1. Q!Loop
    BY <1>2, <1>a DEF Loop, Q!Loop, Q!store
  <2> QED
    BY <2>1 DEF QSteps, Q!Next
<1>3. ASSUME NEW m \in Roots, Submit(m), Q!Yielded PROVE QSteps
  <2>1. m \in Messages /\ dispatch(m) /\ phase[m] = "new" /\ phase' = [phase EXCEPT ![m] = "queued"]
    BY <1>3, KindsAssumption DEF Submit
  <2>2. /\ phase' \in [Messages -> Phase] /\ phase'[m] = "queued"
        /\ \A n \in Messages \ {m} : phase'[n] = phase[n]
    BY <2>1 DEF TypeInv, Phase
  <2> QED
    BY <1>3, <2>1, <2>2, PutStep DEF QSteps, Q!Next
<1>4. ASSUME NEW m \in Roots, SubmitRejected(m) \/ Cancel(m) PROVE QSteps
  <2>1. UNCHANGED <<queueVars, phase>>
    BY <1>4 DEF SubmitRejected, dispatchRejected, Cancel
  <2> QED
    BY <2>1, <1>a, QuietStep DEF QSteps
<1>5. ASSUME NEW m \in Messages, CancelTask(m), Q!Yielded PROVE QSteps
  BY <1>5, LoseStep DEF CancelTask, Inner, QSteps, Q!Next
<1>6. CASE StopHub /\ Q!Yielded
  BY <1>6, <1>a DEF StopHub, QSteps, Q!Next, Q!StopHub, Q!store
<1>7. CASE StopQueue /\ Q!Yielded
  BY <1>7, <1>a DEF StopQueue, QSteps, Q!Next, Q!StopQueue, Q!store
<1>8. CASE UNCHANGED vars
  BY <1>8, <1>a, QuietStep DEF vars, QSteps
<1>9. CASE Next
  <2>1. \/ \E m \in Messages : Take(m)
        \/ Loop
        \/ /\ Q!Yielded
           /\ \/ \E m \in Roots : Submit(m) \/ SubmitRejected(m) \/ Cancel(m)
              \/ \E m \in Messages : TaskStep(m) \/ CancelTask(m)
              \/ \E h \in Triggered : SubscriberDone(h) \/ DispatchTriggered(h)
              \/ StopHub \/ StopQueue
    BY <1>9 DEF Next
  <2> QED
    BY <2>1, <1>1, <1>2, <1>3, <1>4, <1>5, <1>6, <1>7, TaskQueueStep, SubscriberStep
<1> QED
  BY <1>8, <1>9

(* Every behaviour of the hub is one of the queue: nothing is put twice,   *)
(* only a running task completes, and a shutdown goes through its stages.  *)
(* What QueueProofs shows of the queue holds of the hub's.                 *)
THEOREM HubStepsQueue == Spec => Q!Init /\ [][Q!Next]_(Q!vars)
<1>1. Init => Q!Init
  <2> SUFFICES ASSUME Init PROVE Q!Init
    OBVIOUS
  <2>1. \A n \in Messages : ~HasTask(n) /\ ~Accepted(n)
    BY DEF Init, HasTask, Accepted, Live
  <2> QED
    BY <2>1 DEF Init, Q!Init, Q!ABSENT
<1>2. QSteps => [Q!Next]_(Q!vars)
  BY DEF QSteps
<1> QED
  BY <1>1, <1>2, StepQueueStep, Inductive, PTL DEF Spec
=============================================================================
