---------------------------- MODULE StreamsProofs ----------------------------
(***************************************************************************)
(* Proofs about streaming commands, for every number of readers, awaiters, *)
(* callbacks and yields: callbacks are scheduled once, a generator gets    *)
(* the answers that belong to its yields, an await returns the whole       *)
(* stream, and a lone reader sees all of it in order.                      *)
(*                                                                         *)
(* Each has an inductive invariant: CInv, AInv, and on top of StreamInv    *)
(* AwaitInv and ReadInv.  ReadInv looks at what a reader has seen together *)
(* with what the queue holds for it.                                       *)
(***************************************************************************)
EXTENDS MCStreams, SequenceTheorems, WellFoundedInduction, TLAPS

\* A callback waits or has been scheduled, and none waits once it is done.
CInv ==
  /\ called \in [Callbacks -> {0, 1}] /\ waitingCbs \subseteq Callbacks
  /\ \A c \in waitingCbs : called[c] = 0
  /\ \A c \in Callbacks : called[c] = 1 => done
  /\ done \in BOOLEAN
  /\ done => waitingCbs = {}

\* schedule_callbacks leaves no callback unscheduled.
LEMMA ScheduleInv ==
  ASSUME CInv, Stream!schedule_callbacks, done' = TRUE
  PROVE  CInv'
<1>1. \A c \in Callbacks : called'[c] = IF c \in waitingCbs THEN called[c] + 1 ELSE called[c]
  BY DEF Stream!schedule_callbacks, CInv
<1>2. \A c \in Callbacks : called'[c] \in {0, 1}
  BY <1>1 DEF CInv
<1>3. called' \in [Callbacks -> {0, 1}]
  BY <1>2 DEF Stream!schedule_callbacks
<1>4. waitingCbs' = {}
  BY DEF Stream!schedule_callbacks
<1> QED
  BY <1>3, <1>4 DEF CInv

\* What leaves the state alone leaves the callbacks alone.
LEMMA StateKeepsCallbacks == CInv /\ UNCHANGED Stream!stateVars => CInv'
BY DEF CInv, Stream!stateVars

\* finish schedules the callbacks, once.
LEMMA FinishInv == CInv /\ Stream!finish => CInv'
<1> SUFFICES ASSUME CInv, Stream!finish PROVE CInv'
  OBVIOUS
<1>1. CASE done
  BY <1>1, StateKeepsCallbacks DEF Stream!finish
<1>2. CASE ~done
  BY <1>2, ScheduleInv DEF Stream!finish, Stream!putNone
<1> QED
  BY <1>1, <1>2

\* A client adds and removes its callbacks.
LEMMA ClientInv == CInv /\ Stream!Client => CInv'
<1> SUFFICES ASSUME CInv, Stream!Client PROVE CInv'
  OBVIOUS
<1>1. ASSUME NEW c \in Callbacks, Stream!add_done_callback(c) PROVE CInv'
  BY <1>1 DEF Stream!add_done_callback, CInv
<1>2. ASSUME NEW x \in Readers, Stream!StartReading(x) \/ Stream!Get(x) PROVE CInv'
  <2>1. UNCHANGED <<done, waitingCbs, called>>
    BY <1>2 DEF Stream!StartReading, Stream!Get, Stream!stateVars
  <2> QED
    BY <2>1 DEF CInv
<1>3. ASSUME NEW x \in Awaiters, Stream!StartAwait(x) \/ Stream!EndAwait(x) PROVE CInv'
  BY <1>3, StateKeepsCallbacks DEF Stream!StartAwait, Stream!EndAwait
<1> QED
  BY <1>1, <1>2, <1>3 DEF Stream!Client

\* No callback is added at first.
LEMMA CallbacksInit == Stream!Init => CInv
<1> SUFFICES ASSUME Stream!Init PROVE CInv
  OBVIOUS
<1>1. called = [c \in Callbacks |-> 0] /\ waitingCbs = {} /\ done = FALSE
  BY DEF Stream!Init, Stream!StateInit
<1>2. called \in [Callbacks -> {0, 1}] /\ \A c \in Callbacks : called[c] = 0
  BY <1>1
<1>3. \A c \in Callbacks : called[c] = 1 => done
  BY <1>2
<1>4. waitingCbs \subseteq Callbacks /\ \A c \in waitingCbs : called[c] = 0
  BY <1>1
<1>5. done \in BOOLEAN /\ ~done
  BY <1>1
<1> QED
  BY <1>2, <1>3, <1>4, <1>5 DEF CInv

\* Every step keeps the invariant of the callbacks.
LEMMA CallbacksNext == CInv /\ [Stream!Next]_(Stream!vars) => CInv'
<1> SUFFICES ASSUME CInv, [Stream!Next]_(Stream!vars) PROVE CInv'
  OBVIOUS
<1>1. CASE Stream!ShortCircuit
  BY <1>1, ScheduleInv DEF Stream!ShortCircuit, Stream!set_result
<1>2. CASE \/ Stream!Begin \/ Stream!asend \/ Stream!SubResult \/ Stream!SubError
           \/ Stream!Stop \/ Stream!Cancel
  BY <1>2, StateKeepsCallbacks DEF Stream!Begin, Stream!asend, Stream!SubResult,
     Stream!SubError, Stream!Stop, Stream!Cancel
<1>3. ASSUME NEW kind \in Kinds, Stream!Yield(kind) PROVE CInv'
  <2>1. CASE UNCHANGED Stream!stateVars
    BY <2>1, StateKeepsCallbacks
  <2>2. CASE Stream!putValue(Stream!Last + 1)
    BY <2>2 DEF Stream!putValue, CInv
  <2>3. CASE Stream!putNone
    BY <2>3, ScheduleInv DEF Stream!putNone
  <2> QED
    BY <1>3, <2>1, <2>2, <2>3 DEF Stream!Yield, Stream!yieldData
<1>4. CASE Stream!SubStopped \/ Stream!GeneratorReturns
  BY <1>4, FinishInv DEF Stream!SubStopped, Stream!GeneratorReturns
<1>5. CASE Stream!GeneratorRaises
  <2>1. CASE done
    BY <1>5, <2>1, StateKeepsCallbacks DEF Stream!GeneratorRaises
  <2>2. CASE ~done
    BY <1>5, <2>2, ScheduleInv DEF Stream!GeneratorRaises, Stream!set_exception
  <2> QED
    BY <2>1, <2>2
<1>6. CASE Stream!Client
  BY <1>6, ClientInv
<1>7. CASE UNCHANGED Stream!vars
  BY <1>7, StateKeepsCallbacks DEF Stream!vars
<1> QED
  BY <1>1, <1>2, <1>3, <1>4, <1>5, <1>6, <1>7 DEF Stream!Next, Stream!Runner

-----------------------------------------------------------------------------
\* What may answer yield i, of kind k.
Fits(k, i) ==
  CASE k = "sub" -> {i, Stream!Thrown} [] k = "fan" -> {i} [] OTHER -> {Stream!NoFeedback}

\* A generator that runs has an answer to every yield; one that is about to
\* be resumed lacks the last, and that answer is in feedback.
AInv ==
  /\ task \in Stream!TaskState /\ yields \in Seq(Kinds) /\ answers \in Seq(Int)
  /\ feedback \in Int
  /\ Len(answers) <= Len(yields)
  /\ task = "start" => yields = <<>>
  /\ task \in {"asend", "athrow"} => Len(answers) = Len(yields)
  /\ task = "sub" => Len(yields) = Len(answers) + 1 /\ yields[Len(yields)] \in {"sub", "fan"}
  /\ task = "next" /\ yields # <<>> =>
       Len(yields) = Len(answers) + 1 /\ feedback \in Fits(yields[Len(yields)], Len(yields))
  /\ \A i \in 1..Len(answers) : answers[i] \in Fits(yields[i], i)

\* One more answer, that belongs to the last yield.
LEMMA AnswerInv ==
  ASSUME AInv, NEW a \in Int, answers' = Append(answers, a), yields' = yields,
         Len(yields) = Len(answers) + 1, a \in Fits(yields[Len(yields)], Len(yields)),
         feedback' = feedback, task' \in {"asend", "athrow"}
  PROVE  AInv'
<1> USE DEF AInv
<1>1. /\ answers' \in Seq(Int) /\ Len(answers') = Len(answers) + 1 /\ Len(answers) \in Nat
      /\ answers'[Len(answers) + 1] = a
      /\ \A i \in 1..Len(answers) : answers'[i] = answers[i]
  BY AppendProperties, LenProperties
<1>2. \A i \in 1..Len(answers') : answers'[i] \in Fits(yields'[i], i)
  <2> TAKE i \in 1..Len(answers')
  <2>1. CASE i = Len(answers) + 1
    BY <1>1, <2>1
  <2>2. CASE i \in 1..Len(answers)
    BY <1>1, <2>2
  <2> QED
    BY <1>1, <2>1, <2>2
<1> QED
  BY <1>1, <1>2 DEF Stream!TaskState

\* The generator and the answers are left alone.
LEMMA SameAnswers ==
  ASSUME AInv, UNCHANGED <<yields, answers, feedback>>,
         \/ task' = task \/ task' \in {"ended", "cancelled"}
         \/ task = "start" /\ task' = "next"
         \/ task' = "asend" /\ yields = <<>>
  PROVE  AInv'
<1>1. yields = <<>> => Len(yields) = 0 /\ Len(answers) = 0
  BY LenProperties DEF AInv
<1> QED
  BY <1>1 DEF AInv, Stream!TaskState

\* No yield has an answer at first.
LEMMA AnswersInit == Stream!Init => AInv
BY DEF Stream!Init, AInv, Stream!TaskState, Stream!NoFeedback

\* Every step keeps the invariant of the answers.
LEMMA AnswersNext == AInv /\ [Stream!Next]_(Stream!vars) => AInv'
<1> SUFFICES ASSUME AInv, [Stream!Next]_(Stream!vars) PROVE AInv'
  OBVIOUS
<1>1. CASE \/ Stream!ShortCircuit \/ Stream!Begin \/ Stream!SubStopped
           \/ Stream!GeneratorReturns \/ Stream!GeneratorRaises \/ Stream!Cancel
  BY <1>1, SameAnswers DEF Stream!ShortCircuit, Stream!Begin, Stream!SubStopped,
     Stream!GeneratorReturns, Stream!GeneratorRaises, Stream!finish, Stream!Cancel
<1>2. ASSUME NEW kind \in Kinds, Stream!Yield(kind) PROVE AInv'
  <2>1. /\ yields' = Append(yields, kind) /\ answers' = answers
        /\ task \in {"asend", "athrow"} /\ Len(answers) = Len(yields)
        /\ yields \in Seq(Kinds) /\ answers \in Seq(Int)
    BY <1>2 DEF Stream!Yield, AInv
  <2>2. /\ yields' \in Seq(Kinds) /\ Len(yields') = Len(yields) + 1 /\ yields'[Len(yields')] = kind
        /\ Len(yields) \in Nat /\ \A i \in 1..Len(yields) : yields'[i] = yields[i]
    BY <2>1, AppendProperties, LenProperties
  <2>3. \A i \in 1..Len(answers') : answers'[i] \in Fits(yields'[i], i)
    BY <2>1, <2>2 DEF AInv
  <2>4. CASE kind \in {"value", "none"}
    <3>1. feedback' = Stream!NoFeedback /\ task' = "next"
      BY <1>2, <2>4 DEF Stream!Yield, Stream!yieldData
    <3>2. feedback' \in Fits(kind, Len(yields'))
      BY <2>4, <3>1 DEF Fits
    <3> QED
      BY <2>1, <2>2, <2>3, <3>1, <3>2 DEF AInv, Stream!TaskState, Stream!NoFeedback
  <2>5. CASE kind \notin {"value", "none"}
    <3>1. task' = "sub" /\ kind \in {"sub", "fan"} /\ feedback' \in Int
      BY <1>2, <2>5, KindsAssumption DEF Stream!Yield, Stream!NoFeedback, AInv
    <3> QED
      BY <2>1, <2>2, <2>3, <3>1 DEF AInv, Stream!TaskState
  <2> QED
    BY <2>4, <2>5
<1>3. CASE Stream!asend
  <2>1. CASE yields = <<>>
    BY <1>3, <2>1, SameAnswers DEF Stream!asend
  <2>2. CASE yields # <<>>
    BY <1>3, <2>2, AnswerInv DEF Stream!asend, AInv
  <2> QED
    BY <2>1, <2>2
<1>4. CASE Stream!SubResult
  <2>1. /\ task' = "next" /\ feedback' = Len(yields) /\ UNCHANGED <<yields, answers>>
        /\ task = "sub"
    BY <1>4 DEF Stream!SubResult, Stream!Last
  <2>2. Len(yields) \in Int /\ Len(yields) \in Fits(yields[Len(yields)], Len(yields))
    BY <2>1, LenProperties DEF AInv, Fits
  <2> QED
    BY <2>1, <2>2 DEF AInv, Stream!TaskState
<1>5. CASE Stream!SubError
  <2>1. yields[Len(yields)] = "sub" /\ task = "sub" /\ Stream!Thrown \in Int
    BY <1>5 DEF Stream!SubError, Stream!Last, Stream!Thrown
  <2>2. Stream!Thrown \in Fits(yields[Len(yields)], Len(yields))
    BY <2>1 DEF Fits
  <2> QED
    BY <1>5, <2>1, <2>2, AnswerInv DEF Stream!SubError, AInv
<1>6. CASE Stream!Stop \/ (Stream!Client /\ UNCHANGED Stream!runVars) \/ UNCHANGED Stream!vars
  BY <1>6, SameAnswers DEF Stream!Stop, Stream!runVars, Stream!vars
<1> QED
  BY <1>1, <1>2, <1>3, <1>4, <1>5, <1>6 DEF Stream!Next, Stream!Runner

\* What the invariant says of the answers.
LEMMA AnswersInvMatch == AInv => Stream!AnswersMatch
<1> SUFFICES ASSUME AInv PROVE Stream!AnswersMatch
  OBVIOUS
<1>1. DOMAIN answers = 1..Len(answers)
  BY DEF AInv
<1> QED
  BY <1>1, Zenon DEF AInv, Fits, Stream!AnswersMatch
-----------------------------------------------------------------------------
\* Streams, YieldedNone and Visible for a given sequence of yields.
Holds(ys, s, n) ==
  /\ \A i, j \in DOMAIN s : i < j => s[i] < s[j]
  /\ \A i \in DOMAIN s : s[i] \in 1..n /\ ys[s[i]] = "value"
  /\ \A v \in 1..n : ys[v] = "value" => \E i \in DOMAIN s : s[i] = v
HasNone(ys) == \E i \in DOMAIN ys : ys[i] = "none"
IsFirstNone(ys, i) ==
  i \in DOMAIN ys /\ ys[i] = "none" /\ \A j \in 1..(i - 1) : ys[j] # "none"
UpTo(ys) ==
  IF HasNone(ys) THEN CHOOSE i \in DOMAIN ys :
                        ys[i] = "none" /\ \A j \in 1..(i - 1) : ys[j] # "none"
  ELSE Len(ys)

\* What it is to hold the values among the first yields.
LEMMA HoldsIs ==
  ASSUME NEW ys, NEW s, NEW n
  PROVE  Holds(ys, s, n) <=>
           /\ \A i, j \in DOMAIN s : i < j => s[i] < s[j]
           /\ {s[i] : i \in DOMAIN s} = {i \in 1..n : ys[i] = "value"}
<1>1. ASSUME {s[i] : i \in DOMAIN s} = {i \in 1..n : ys[i] = "value"}
      PROVE  /\ \A i \in DOMAIN s : s[i] \in 1..n /\ ys[s[i]] = "value"
             /\ \A v \in 1..n : ys[v] = "value" => \E i \in DOMAIN s : s[i] = v
  <2>1. \A i \in DOMAIN s : s[i] \in {j \in 1..n : ys[j] = "value"}
    BY <1>1, Zenon
  <2>2. \A v \in {j \in 1..n : ys[j] = "value"} : v \in {s[i] : i \in DOMAIN s}
    BY <1>1, Zenon
  <2> QED
    BY <2>1, <2>2, Zenon
<1>2. ASSUME /\ \A i \in DOMAIN s : s[i] \in 1..n /\ ys[s[i]] = "value"
             /\ \A v \in 1..n : ys[v] = "value" => \E i \in DOMAIN s : s[i] = v
      PROVE  {s[i] : i \in DOMAIN s} = {i \in 1..n : ys[i] = "value"}
  BY <1>2, Zenon
<1> QED
  BY <1>1, <1>2, Zenon DEF Holds

\* The operators of the model, of the yields at hand,
LEMMA StreamsHolds ==
  /\ \A s, n : Stream!Streams(s, n) <=> Holds(yields, s, n)
  /\ Stream!YieldedNone <=> HasNone(yields)
  /\ Stream!Visible = UpTo(yields)
BY HoldsIs, Zenon DEF Stream!Streams, Stream!YieldedNone, HasNone, Stream!Visible,
   Stream!FirstNone, UpTo, Stream!Last

\* and of the next ones.
LEMMA StreamsHoldsNext ==
  /\ \A s, n : Stream!Streams(s, n)' <=> Holds(yields', s, n)
  /\ Stream!YieldedNone' <=> HasNone(yields')
  /\ Stream!Visible' = UpTo(yields')
BY HoldsIs, Zenon DEF Stream!Streams, Stream!YieldedNone, HasNone, Stream!Visible,
   Stream!FirstNone, UpTo, Stream!Last

\* The first `yield None' is the only first one.
LEMMA FirstNoneIs ==
  ASSUME NEW S, NEW ys \in Seq(S), NEW i, IsFirstNone(ys, i)
  PROVE  HasNone(ys) /\ UpTo(ys) = i
<1>1. \A j \in DOMAIN ys :
        ys[j] = "none" /\ (\A k \in 1..(j - 1) : ys[k] # "none") => j = i
  <2> SUFFICES ASSUME NEW j \in DOMAIN ys, ys[j] = "none",
                      \A k \in 1..(j - 1) : ys[k] # "none"
               PROVE  j = i
    OBVIOUS
  <2>1. i \in Nat \ {0} /\ j \in Nat \ {0}
    BY LenProperties DEF IsFirstNone
  <2>2. ~(i < j) /\ ~(j < i)
    BY <2>1 DEF IsFirstNone
  <2> QED
    BY <2>1, <2>2
<1>2. HasNone(ys)
  BY DEF HasNone, IsFirstNone
<1>3. \E j \in DOMAIN ys : ys[j] = "none" /\ \A k \in 1..(j - 1) : ys[k] # "none"
  BY DEF IsFirstNone
<1> DEFINE c == CHOOSE j \in DOMAIN ys : ys[j] = "none" /\ \A k \in 1..(j - 1) : ys[k] # "none"
<1>4. c \in DOMAIN ys /\ ys[c] = "none" /\ \A k \in 1..(c - 1) : ys[k] # "none"
  BY <1>3, Zenon
<1>5. c = i
  <2> HIDE DEF c
  <2> QED
    BY <1>1, <1>4
<1> QED
  BY <1>2, <1>5 DEF UpTo

\* Some `yield None' is the first.
LEMMA FirstNoneExists ==
  ASSUME NEW S, NEW ys \in Seq(S), HasNone(ys)
  PROVE  IsFirstNone(ys, UpTo(ys)) /\ UpTo(ys) \in 1..Len(ys)
<1> DEFINE D == {i \in DOMAIN ys : ys[i] = "none"}
<1>1. D \subseteq Nat /\ D # {} /\ DOMAIN ys = 1..Len(ys) /\ Len(ys) \in Nat
  BY LenProperties DEF HasNone
<1>2. PICK k \in D : \A i \in D : ~(i < k)
  <2>1. IsWellFoundedOn(OpToRel(<, Nat), Nat)
    BY NatLessThanWellFounded
  <2> HIDE DEF D
  <2>2. PICK k \in D : \A i \in D : ~(<<i, k>> \in OpToRel(<, Nat))
    BY <1>1, <2>1, WFMin, Zenon
  <2> QED
    BY <1>1, <2>2 DEF OpToRel
<1>3. IsFirstNone(ys, k)
  <2>1. k \in 1..Len(ys) /\ ys[k] = "none"
    BY <1>1, <1>2
  <2>2. \A j \in 1..(k - 1) : j \in DOMAIN ys /\ j < k
    BY <1>1, <2>1
  <2> QED
    BY <1>1, <1>2, <2>1, <2>2 DEF IsFirstNone
<1> QED
  BY <1>1, <1>2, <1>3, FirstNoneIs

IsValue(k) == k = "value"
IsNone(k)  == k = "none"

\* How many yields come before the first None.
LEMMA UpToType ==
  ASSUME NEW S, NEW ys \in Seq(S)
  PROVE  Len(ys) \in Nat /\ UpTo(ys) \in 0..Len(ys) /\ (~HasNone(ys) => UpTo(ys) = Len(ys))
<1>1. Len(ys) \in Nat
  BY LenProperties
<1>2. CASE HasNone(ys)
  BY <1>1, <1>2, FirstNoneExists
<1>3. CASE ~HasNone(ys)
  BY <1>1, <1>3 DEF UpTo
<1> QED
  BY <1>1, <1>2, <1>3

\* What one more yield does to the visible part: nothing after the first
\* `yield None', and else it is the last of that part.
LEMMA YieldUpTo ==
  ASSUME NEW S, NEW ys \in Seq(S), NEW k \in S, NEW zs, zs = Append(ys, k)
  PROVE  /\ HasNone(ys) => HasNone(zs) /\ UpTo(zs) = UpTo(ys)
         /\ ~HasNone(ys) => UpTo(zs) = Len(ys) + 1
         /\ ~HasNone(ys) /\ IsNone(k) => HasNone(zs)
         /\ ~HasNone(ys) /\ ~IsNone(k) => ~HasNone(zs)
<1>1. /\ zs \in Seq(S) /\ Len(zs) = Len(ys) + 1 /\ Len(ys) \in Nat /\ zs[Len(ys) + 1] = k
      /\ DOMAIN zs = 1..(Len(ys) + 1) /\ DOMAIN ys = 1..Len(ys)
      /\ \A i \in 1..Len(ys) : zs[i] = ys[i]
  BY AppendProperties, LenProperties
<1>2. CASE HasNone(ys)
  <2>1. IsFirstNone(ys, UpTo(ys)) /\ UpTo(ys) \in 1..Len(ys)
    BY <1>2, FirstNoneExists
  <2>2. IsFirstNone(zs, UpTo(ys))
    BY <1>1, <2>1 DEF IsFirstNone
  <2> QED
    BY <1>1, <1>2, <2>2, FirstNoneIs
<1>3. CASE ~HasNone(ys) /\ k # "none"
  <2>1. ~HasNone(zs)
    BY <1>1, <1>3 DEF HasNone
  <2> QED
    BY <1>1, <1>3, <2>1 DEF UpTo, IsNone
<1>4. CASE ~HasNone(ys) /\ k = "none"
  <2>1. IsFirstNone(zs, Len(ys) + 1)
    BY <1>1, <1>4 DEF HasNone, IsFirstNone
  <2> QED
    BY <1>1, <1>4, <2>1, FirstNoneIs DEF IsNone
<1> QED
  BY <1>2, <1>3, <1>4 DEF IsNone

\* What one more yield does to a sequence that holds the values so far.
LEMMA YieldHolds ==
  ASSUME NEW S, NEW ys \in Seq(S), NEW k \in S, NEW zs, zs = Append(ys, k),
         NEW s \in Seq(Nat)
  PROVE  /\ \A n \in 0..Len(ys) : Holds(ys, s, n) => Holds(zs, s, n)
         /\ ~IsValue(k) /\ Holds(ys, s, Len(ys)) => Holds(zs, s, Len(ys) + 1)
         /\ IsValue(k) /\ Holds(ys, s, Len(ys))
              => Holds(zs, Append(s, Len(ys) + 1), Len(ys) + 1)
<1> DEFINE l == Len(ys)
<1>1. /\ l \in Nat /\ zs[l + 1] = k /\ \A i \in 1..l : zs[i] = ys[i]
  BY AppendProperties, LenProperties
<1>2. \A n \in 0..l : Holds(ys, s, n) => Holds(zs, s, n)
  <2> SUFFICES ASSUME NEW n \in 0..l, Holds(ys, s, n) PROVE Holds(zs, s, n)
    OBVIOUS
  <2>1. \A v \in 1..n : zs[v] = ys[v]
    BY <1>1
  <2> QED
    BY <2>1 DEF Holds
<1>3. CASE ~IsValue(k)
  <2>1. \A v \in 1..(l + 1) : zs[v] = "value" => v \in 1..l /\ ys[v] = "value"
    BY <1>1, <1>3 DEF IsValue
  <2>2. \A v \in 1..l : v \in 1..(l + 1) /\ zs[v] = ys[v]
    BY <1>1
  <2>3. Holds(ys, s, l) => Holds(zs, s, l + 1)
    BY <2>1, <2>2 DEF Holds
  <2> QED
    BY <1>2, <1>3, <2>3
<1>4. CASE IsValue(k) /\ Holds(ys, s, l)
  <2> DEFINE t == Append(s, l + 1)
  <2>2. /\ Len(s) \in Nat /\ DOMAIN s = 1..Len(s) /\ DOMAIN t = 1..(Len(s) + 1)
        /\ \A i \in 1..Len(s) : t[i] = s[i]
        /\ t[Len(s) + 1] = l + 1
    BY <1>1, AppendProperties, LenProperties
  <2>3. \A i \in DOMAIN s : s[i] \in 1..l
    BY <1>4 DEF Holds
  <2> HIDE DEF t
  <2>1. \A i \in DOMAIN t : t[i] \in 1..(l + 1) /\ zs[t[i]] = "value"
    BY <1>1, <1>4, <2>2, <2>3 DEF Holds, IsValue
  <2>4. ASSUME NEW v \in 1..(l + 1), zs[v] = "value" PROVE \E i \in DOMAIN t : t[i] = v
    <3>1. CASE v = l + 1
      BY <2>2, <3>1
    <3>2. CASE v \in 1..l
      <4>1. PICK i \in DOMAIN s : s[i] = v
        BY <1>1, <1>4, <2>4, <3>2 DEF Holds
      <4> QED
        BY <2>2, <4>1
    <3> QED
      BY <1>1, <3>1, <3>2
  <2>5. \A i, j \in DOMAIN t : i < j => t[i] < t[j]
    <3> SUFFICES ASSUME NEW i \in DOMAIN t, NEW j \in DOMAIN t, i < j PROVE t[i] < t[j]
      OBVIOUS
    <3>1. i \in 1..Len(s)
      BY <2>2
    <3>2. CASE j \in 1..Len(s)
      BY <1>4, <2>2, <3>1, <3>2 DEF Holds
    <3>3. CASE j = Len(s) + 1
      <4>1. t[j] = l + 1 /\ t[i] \in 1..l
        BY <2>2, <2>3, <3>1, <3>3
      <4> QED
        BY <1>1, <4>1
    <3> QED
      BY <2>2, <3>2, <3>3
  <2>6. Holds(zs, t, l + 1)
    BY <1>4, <2>1, <2>4, <2>5 DEF Holds
  <2> QED
    BY <1>2, <1>4, <2>6 DEF t
<1> QED
  BY <1>2, <1>3, <1>4

\* A part of the values from the beginning is what an earlier end shows.
LEMMA PartHolds ==
  ASSUME NEW ys, NEW n \in Nat, NEW s \in Seq(Nat), NEW p \in 0..Len(s),
         Holds(ys, SubSeq(s, 1, p), n), NEW k \in 0..p
  PROVE  \E m \in 0..n : Holds(ys, SubSeq(s, 1, k), m)
<1>1. /\ Len(s) \in Nat
      /\ \A i \in 1..Len(s) : s[i] \in Nat
      /\ DOMAIN SubSeq(s, 1, k) = 1..k /\ DOMAIN SubSeq(s, 1, p) = 1..p
      /\ \A i \in 1..k : SubSeq(s, 1, k)[i] = s[i]
      /\ \A i \in 1..p : SubSeq(s, 1, p)[i] = s[i]
  OBVIOUS
<1>2. /\ \A i, j \in 1..p : i < j => s[i] < s[j]
      /\ \A i \in 1..p : s[i] \in 1..n /\ ys[s[i]] = "value"
      /\ \A v \in 1..n : ys[v] = "value" => \E i \in 1..p : s[i] = v
  BY <1>1 DEF Holds
<1>3. CASE k = 0
  <2>1. Holds(ys, SubSeq(s, 1, k), 0)
    BY <1>1, <1>3 DEF Holds
  <2> QED
    BY <2>1
<1>4. CASE k # 0
  <2>1. s[k] \in 1..n /\ k \in 1..p
    BY <1>1, <1>2, <1>4
  <2>2. ASSUME NEW i \in 1..k PROVE s[i] \in 1..s[k] /\ ys[s[i]] = "value"
    <3>1. i \in 1..p /\ s[i] \in 1..n /\ ys[s[i]] = "value" /\ s[i] <= s[k]
      BY <1>1, <1>2, <2>1, <2>2
    <3> QED
      BY <2>1, <3>1
  <2>3. ASSUME NEW v \in 1..s[k], ys[v] = "value" PROVE \E i \in 1..k : s[i] = v
    <3>1. v \in 1..n
      BY <2>1
    <3>2. PICK i \in 1..p : s[i] = v
      BY <1>2, <2>3, <3>1
    <3>3. ~(k < i)
      BY <1>1, <1>2, <2>1, <2>3, <3>2
    <3> QED
      BY <3>2, <3>3
  <2>4. \A i, j \in 1..k : i < j => s[i] < s[j]
    BY <1>2
  <2>5. ASSUME NEW u, DOMAIN u = 1..k, \A i \in 1..k : u[i] = s[i]
        PROVE  Holds(ys, u, s[k])
    BY <2>2, <2>3, <2>4, <2>5 DEF Holds
  <2>6. Holds(ys, SubSeq(s, 1, k), s[k])
    BY <1>1, <2>5
  <2> QED
    BY <2>1, <2>6
<1> QED
  BY <1>3, <1>4
-----------------------------------------------------------------------------
\* What a reader will see: of the sequence c that it has seen up to l and the
\* queue holds from there on, a part up to a point p shows the visible part,
\* and the sentinel that ends the reader comes next, unless the stream has
\* not come to its end.
Reads(ys, over, l, c) ==
  \E p \in l..Len(c) :
    /\ Holds(ys, SubSeq(c, 1, p), UpTo(ys))
    /\ IF p = Len(c) THEN ~HasNone(ys)
       ELSE c[p + 1] = Stream!Sentinel /\ (over \/ HasNone(ys))

\* Sequences: one more element at the end.
LEMMA OneMore ==
  ASSUME NEW c \in Seq(Nat), NEW v \in Nat, NEW d, d = Append(c, v)
  PROVE  /\ Len(c) \in Nat /\ d \in Seq(Nat)
         /\ Len(d) = Len(c) + 1 /\ d[Len(c) + 1] = v
         /\ \A i \in 1..Len(c) : d[i] = c[i]
         /\ \A p \in 0..Len(c) : SubSeq(d, 1, p) = SubSeq(c, 1, p)
         /\ SubSeq(c, 1, Len(c)) = c
         /\ SubSeq(d, 1, Len(d)) = d
<1>1. /\ d \in Seq(Nat) /\ Len(c) \in Nat /\ Len(d) = Len(c) + 1 /\ d[Len(c) + 1] = v
      /\ \A i \in 1..Len(c) : d[i] = c[i]
  BY AppendProperties, LenProperties
<1>2. SubSeq(c, 1, Len(c)) = c /\ SubSeq(d, 1, Len(d)) = d
  BY <1>1, SubSeqFull
<1>3. \A p \in 0..Len(c) : SubSeq(d, 1, p) = SubSeq(c, 1, p)
  <2> SUFFICES ASSUME NEW p \in 0..Len(c) PROVE SubSeq(d, 1, p) = SubSeq(c, 1, p)
    OBVIOUS
  <2>1. ASSUME NEW i \in 1..p PROVE d[i] \in Nat /\ c[i] \in Nat /\ d[i] = c[i]
    <3>1. i \in 1..Len(c)
      BY <1>1
    <3> QED
      BY <1>1, <3>1, ElementOfSeq
  <2>2. /\ SubSeq(d, 1, p) \in Seq(Nat) /\ SubSeq(c, 1, p) \in Seq(Nat)
        /\ Len(SubSeq(d, 1, p)) = Len(SubSeq(c, 1, p))
        /\ Len(SubSeq(d, 1, p)) = p
        /\ \A i \in 1..p : SubSeq(d, 1, p)[i] = d[i] /\ SubSeq(c, 1, p)[i] = c[i]
    BY <1>1, <2>1
  <2> QED
    BY <2>1, <2>2, SeqEqual
<1> QED
  BY <1>1, <1>2, <1>3

\* Sequences: what has been seen and the queue.
LEMMA SeenAndQueue ==
  ASSUME NEW s \in Seq(Nat), NEW q \in Seq(Nat)
  PROVE  /\ s \o q \in Seq(Nat) /\ Len(s) \in 0..Len(s \o q)
         /\ SubSeq(s \o q, 1, Len(s)) = s
         /\ \A v \in Nat : s \o Append(q, v) = Append(s \o q, v)
<1>1. /\ Len(q) \in Nat /\ Len(s) \in Nat
      /\ s \o q \in Seq(Nat) /\ Len(s \o q) = Len(s) + Len(q)
      /\ \A i \in 1..Len(s) + Len(q) : (s \o q)[i] = IF i <= Len(s) THEN s[i] ELSE q[i - Len(s)]
  BY LenProperties, ConcatProperties
<1>2. ASSUME NEW v \in Nat PROVE s \o Append(q, v) = Append(s \o q, v)
  <2>1. s \o Append(q, v) = s \o (q \o <<v>>) /\ Append(s \o q, v) = (s \o q) \o <<v>>
    BY <1>1, AppendIsConcat
  <2>2. <<v>> \in Seq(Nat)
    OBVIOUS
  <2> QED
    BY <2>1, <2>2, ConcatAssociative
<1>3. SubSeq(s \o q, 1, Len(s)) = s
  <2>1. \A i \in 1..Len(s) : (s \o q)[i] = s[i] /\ s[i] \in Nat
    BY <1>1, ElementOfSeq
  <2>2. /\ SubSeq(s \o q, 1, Len(s)) \in Seq(Nat) /\ Len(SubSeq(s \o q, 1, Len(s))) = Len(s)
        /\ \A i \in 1..Len(s) : SubSeq(s \o q, 1, Len(s))[i] = (s \o q)[i]
    BY <1>1, <2>1
  <2> QED
    BY <2>1, <2>2, SeqEqual
<1>4. Len(s) \in 0..Len(s \o q)
  BY <1>1
<1> QED
  BY <1>1, <1>2, <1>3, <1>4

\* Sequences: the first of the queue becomes the last one seen.
LEMMA OneSeen ==
  ASSUME NEW s \in Seq(Nat), NEW q \in Seq(Nat), q # <<>>
  PROVE  /\ Append(s, Head(q)) \o Tail(q) = s \o q
         /\ Head(q) \in Nat /\ Tail(q) \in Seq(Nat)
         /\ Append(s, Head(q)) \in Seq(Nat)
         /\ Len(Append(s, Head(q))) = Len(s) + 1
         /\ (s \o q)[Len(s) + 1] = Head(q)
         /\ Len(s) < Len(s \o q)
<1>1. PICK h, t : h = Head(q) /\ t = Tail(q)
  OBVIOUS
<1>2. h \in Nat /\ t \in Seq(Nat) /\ Len(q) \in Nat \ {0} /\ Len(s) \in Nat /\ q[1] = h
  BY <1>1, HeadTailProperties, EmptySeq, LenProperties
<1>3. q = <<h>> \o t /\ <<h>> \in Seq(Nat)
  BY <1>1, <1>2
<1>4. Append(s, h) \in Seq(Nat) /\ Len(Append(s, h)) = Len(s) + 1 /\ Append(s, h) = s \o <<h>>
  BY <1>2, AppendProperties, AppendIsConcat
<1>5. Append(s, h) \o t = s \o q
  <2>1. (s \o <<h>>) \o t = s \o (<<h>> \o t)
    BY <1>2, <1>3, ConcatAssociative
  <2> QED
    BY <1>3, <1>4, <2>1, Zenon
<1>6. (s \o q)[Len(s) + 1] = h /\ Len(s) < Len(s \o q)
  <2>1. /\ Len(s \o q) = Len(s) + Len(q)
        /\ \A i \in 1..Len(s) + Len(q) : (s \o q)[i] = IF i <= Len(s) THEN s[i] ELSE q[i - Len(s)]
    BY ConcatProperties
  <2>2. (s \o q)[Len(s) + 1] = q[1]
    BY <1>2, <2>1
  <2> QED
    BY <1>2, <2>1, <2>2
<1> QED
  BY <1>1, <1>2, <1>4, <1>5, <1>6, Zenon

\* What a reader has seen is what an earlier end shows.
LEMMA ReadsSeen ==
  ASSUME NEW S, NEW ys \in Seq(S), NEW over \in BOOLEAN, NEW c \in Seq(Nat), NEW l \in 0..Len(c),
         Reads(ys, over, l, c)
  PROVE  \E n \in 0..UpTo(ys) : Holds(ys, SubSeq(c, 1, l), n)
<1>1. PICK p \in l..Len(c) : Holds(ys, SubSeq(c, 1, p), UpTo(ys))
  BY DEF Reads
<1>2. Len(c) \in Nat /\ UpTo(ys) \in Nat
  BY LenProperties, UpToType
<1>3. p \in 0..Len(c) /\ l \in 0..p
  BY <1>1, <1>2
<1> QED
  BY <1>1, <1>2, <1>3, PartHolds

\* The reader takes the first of the queue.
LEMMA ReadsGet ==
  ASSUME NEW S, NEW ys \in Seq(S), NEW over \in BOOLEAN, NEW c \in Seq(Nat), NEW l \in 0..Len(c),
         l < Len(c), Reads(ys, over, l, c)
  PROVE  /\ c[l + 1] = Stream!Sentinel
              => Holds(ys, SubSeq(c, 1, l), UpTo(ys)) /\ (over \/ HasNone(ys))
         /\ c[l + 1] # Stream!Sentinel => Reads(ys, over, l + 1, c)
<1>1. PICK p \in l..Len(c) :
        /\ Holds(ys, SubSeq(c, 1, p), UpTo(ys))
        /\ IF p = Len(c) THEN ~HasNone(ys)
           ELSE c[p + 1] = Stream!Sentinel /\ (over \/ HasNone(ys))
  BY DEF Reads
<1>2. Len(c) \in Nat /\ UpTo(ys) \in Nat
  BY LenProperties, UpToType
<1>3. CASE c[l + 1] = Stream!Sentinel
  <2>1. p = l
    <3> SUFFICES ASSUME p # l PROVE FALSE
      OBVIOUS
    <3>1. l + 1 \in 1..p /\ p <= Len(c)
      BY <1>1, <1>2
    <3>2. \A i \in 1..p : c[i] \in Nat
      BY <1>2, <3>1, ElementOfSeq
    <3>3. /\ DOMAIN SubSeq(c, 1, p) = 1..p
          /\ SubSeq(c, 1, p)[l + 1] = c[l + 1]
      BY <1>2, <3>1, <3>2
    <3>4. c[l + 1] \in 1..UpTo(ys)
      BY <1>1, <3>1, <3>3 DEF Holds
    <3> QED
      BY <1>2, <1>3, <3>4 DEF Stream!Sentinel
  <2>2. p # Len(c)
    BY <2>1
  <2> QED
    BY <1>1, <1>3, <2>1, <2>2
<1>4. CASE c[l + 1] # Stream!Sentinel
  <2>1. p # l
    BY <1>1, <1>4
  <2>2. p \in (l + 1)..Len(c)
    BY <1>1, <1>2, <2>1
  <2> QED
    BY <1>1, <1>4, <2>2 DEF Reads
<1> QED
  BY <1>3, <1>4

\* The stream comes to its end while the task ends.
LEMMA ReadsEnd ==
  ASSUME NEW ys, NEW over, NEW c \in Seq(Nat), NEW l \in 0..Len(c), Reads(ys, over, l, c)
  PROVE  Reads(ys, TRUE, l, c) /\ Reads(ys, TRUE, l, Append(c, Stream!Sentinel))
<1>1. PICK p \in l..Len(c) :
        /\ Holds(ys, SubSeq(c, 1, p), UpTo(ys))
        /\ IF p = Len(c) THEN ~HasNone(ys)
           ELSE c[p + 1] = Stream!Sentinel /\ (over \/ HasNone(ys))
  BY DEF Reads
<1>2. Reads(ys, TRUE, l, c)
  BY <1>1 DEF Reads
<1>3. PICK d : d = Append(c, Stream!Sentinel)
  OBVIOUS
<1>4. /\ Len(c) \in Nat /\ Len(d) = Len(c) + 1 /\ d[Len(c) + 1] = Stream!Sentinel
      /\ \A i \in 1..Len(c) : d[i] = c[i]
      /\ \A r \in 0..Len(c) : SubSeq(d, 1, r) = SubSeq(c, 1, r)
  BY <1>3, OneMore DEF Stream!Sentinel
<1>5. p \in l..Len(d) /\ p # Len(d) /\ p \in 0..Len(c)
  BY <1>1, <1>4
<1>6. d[p + 1] = Stream!Sentinel
  BY <1>1, <1>4, <1>5
<1>7. Holds(ys, SubSeq(d, 1, p), UpTo(ys))
  BY <1>1, <1>4, <1>5
<1>8. Reads(ys, TRUE, l, d)
  BY <1>5, <1>6, <1>7 DEF Reads
<1> QED
  BY <1>2, <1>3, <1>8

\* The generator yields: what it yields is put into the queue.
Queued(ys, k, c) ==
  IF IsValue(k) THEN Append(c, Len(ys) + 1)
  ELSE IF IsNone(k) THEN Append(c, Stream!Sentinel) ELSE c

\* A yield keeps the reader in step with the buffer.
LEMMA ReadsYield ==
  ASSUME NEW S, NEW ys \in Seq(S), NEW k \in S, NEW zs, zs = Append(ys, k),
         NEW c \in Seq(Nat), NEW l \in 0..Len(c), NEW d,
         Reads(ys, FALSE, l, c),
         d = Queued(ys, k, c)
  PROVE  Reads(zs, FALSE, l, d)
<1>1. PICK p \in l..Len(c) :
        /\ Holds(ys, SubSeq(c, 1, p), UpTo(ys))
        /\ IF p = Len(c) THEN ~HasNone(ys) ELSE c[p + 1] = Stream!Sentinel /\ HasNone(ys)
  BY DEF Reads
<1>2. /\ Len(c) \in Nat /\ p \in 0..Len(c) /\ SubSeq(c, 1, p) \in Seq(Nat)
      /\ Len(ys) \in Nat /\ UpTo(ys) \in 0..Len(ys) /\ (~HasNone(ys) => UpTo(ys) = Len(ys))
  <2>1. Len(c) \in Nat /\ p \in 0..Len(c) /\ \A i \in 1..Len(c) : c[i] \in Nat
    BY LenProperties, ElementOfSeq
  <2>2. SubSeq(c, 1, p) \in Seq(Nat)
    BY <2>1
  <2> QED
    BY <2>1, <2>2, UpToType
\* What the queue gains, if it gains anything, comes after p.
<1>3. CASE HasNone(ys)
  <2>1. p \in 0..(Len(c) - 1) /\ c[p + 1] = Stream!Sentinel
    BY <1>1, <1>2, <1>3
  <2>2. Holds(zs, SubSeq(c, 1, p), UpTo(zs)) /\ HasNone(zs)
    <3>1. HasNone(zs) /\ UpTo(zs) = UpTo(ys)
      BY <1>3, YieldUpTo
    <3> QED
      BY <1>1, <1>2, <3>1, YieldHolds
  <2>3. CASE d = c
    BY <1>2, <2>1, <2>2, <2>3 DEF Reads
  <2>4. ASSUME NEW v \in Nat, d = Append(c, v) PROVE Reads(zs, FALSE, l, d)
    <3>1. /\ Len(d) = Len(c) + 1 /\ d[p + 1] = c[p + 1]
          /\ SubSeq(d, 1, p) = SubSeq(c, 1, p)
      BY <1>2, <2>1, <2>4, OneMore
    <3>2. p \in l..Len(d) /\ p # Len(d)
      BY <1>2, <2>1, <3>1
    <3> QED
      BY <2>1, <2>2, <3>1, <3>2 DEF Reads
  <2>5. Stream!Sentinel \in Nat /\ Len(ys) + 1 \in Nat
    BY <1>2 DEF Stream!Sentinel
  <2> QED
    BY <2>3, <2>4, <2>5 DEF Queued
<1>4. CASE ~HasNone(ys)
  <2>1. p = Len(c) /\ Holds(ys, c, Len(ys)) /\ UpTo(zs) = Len(ys) + 1
    BY <1>1, <1>2, <1>4, YieldUpTo, SubSeqFull
  <2>2. CASE IsValue(k)
    <3>1. Len(ys) + 1 \in Nat /\ d = Append(c, Len(ys) + 1)
      BY <1>2, <2>2 DEF Queued
    <3>2. Holds(zs, d, Len(ys) + 1) /\ ~HasNone(zs)
      <4>1. ~HasNone(zs)
        <5>1. ~IsNone(k)
          BY <2>2 DEF IsNone, IsValue
        <5> QED
          BY <1>4, <5>1, YieldUpTo
      <4>2. Holds(zs, Append(c, Len(ys) + 1), Len(ys) + 1)
        BY <2>1, <2>2, YieldHolds
      <4> QED
        BY <3>1, <4>1, <4>2
    <3>3. Len(d) = Len(c) + 1 /\ SubSeq(d, 1, Len(d)) = d
      BY <3>1, OneMore
    <3>4. Len(d) \in l..Len(d)
      BY <1>1, <1>2, <3>3
    <3> QED
      BY <2>1, <3>2, <3>3, <3>4 DEF Reads
  <2>3. CASE IsNone(k) /\ ~IsValue(k)
    <3>1. d = Append(c, Stream!Sentinel) /\ Stream!Sentinel \in Nat
      BY <2>3 DEF Stream!Sentinel, Queued
    <3>2. Holds(zs, c, Len(ys) + 1) /\ HasNone(zs)
      BY <1>2, <1>4, <2>1, <2>3, YieldHolds, YieldUpTo
    <3>3. /\ Len(d) = Len(c) + 1 /\ d[Len(c) + 1] = Stream!Sentinel
          /\ SubSeq(d, 1, Len(c)) = c
      BY <1>2, <2>1, <3>1, OneMore
    <3>4. p \in l..Len(d) /\ p # Len(d)
      BY <1>1, <1>2, <2>1, <3>3
    <3> QED
      BY <2>1, <3>2, <3>3, <3>4 DEF Reads
  <2>4. CASE ~IsValue(k) /\ ~IsNone(k)
    <3>1. d = c
      BY <2>4 DEF Queued
    <3>2. Holds(zs, c, Len(ys) + 1) /\ ~HasNone(zs)
      BY <1>2, <1>4, <2>1, <2>4, YieldHolds, YieldUpTo
    <3> QED
      BY <1>1, <1>2, <2>1, <3>1, <3>2, SubSeqFull DEF Reads
  <2> QED
    BY <2>2, <2>3, <2>4
<1> QED
  BY <1>3, <1>4
-----------------------------------------------------------------------------
\* What a step of the runner does to the stream: it ends it without a value
\* (a before-hook answered), leaves it alone, ends it, or yields.
Shorts ==
  /\ task = "start" /\ task' = "ended" /\ done' = TRUE
  /\ results' = IF results = <<>> THEN <<Stream!ShortValue>> ELSE results
  /\ UNCHANGED <<yields, queue, exception>>
Quiet ==
  /\ task' \in Stream!TaskState /\ (task' = task \/ task # "ended")
  /\ (task' = "start" => task = "start") /\ (task' = "sub" => task = "sub")
  /\ UNCHANGED <<yields, queue, results, done, exception>>
Ends ==
  /\ ~done /\ task' = "ended" /\ done' = TRUE /\ exception' \in BOOLEAN
  /\ queue' = Append(queue, Stream!Sentinel)
  /\ UNCHANGED <<yields, results>>
Yields(kind) ==
  /\ task \in {"asend", "athrow"} /\ kind \in Kinds
  /\ yields' = Append(yields, kind)
  /\ UNCHANGED exception
  /\ task' = (IF kind \in {"value", "none"} THEN "next" ELSE "sub")
  /\ results' = (IF kind = "value" THEN Append(results, Len(yields) + 1) ELSE results)
  /\ done' = (IF kind = "none" THEN TRUE ELSE done)
  /\ queue' = (IF kind = "value" THEN Append(queue, Len(yields) + 1)
               ELSE IF kind = "none" THEN Append(queue, Stream!Sentinel) ELSE queue)

\* The stream, and how far the task has come.  The streamed values are the
\* results, but for the result of a before-hook.
StreamInv ==
  /\ task \in Stream!TaskState /\ yields \in Seq(Kinds)
  /\ results \in Seq(Nat) /\ queue \in Seq(Nat)
  /\ done \in BOOLEAN /\ exception \in BOOLEAN
  /\ task = "start" => yields = <<>>
  /\ done => task = "ended" \/ HasNone(yields)
  /\ HasNone(yields) => done
  /\ exception => done
  /\ Holds(yields, results, Len(yields)) \/ (task = "ended" /\ yields = <<>>)
  /\ task = "start" => results = <<>>

\* finish ends the stream, or leaves it alone.
LEMMA FinishKind ==
  ASSUME StreamInv, task # "ended", Stream!finish, UNCHANGED yields
  PROVE  Quiet \/ Ends
<1>1. CASE done
  BY <1>1 DEF Stream!finish, Quiet, Stream!stateVars, Stream!TaskState, StreamInv
<1>2. CASE ~done
  BY <1>2 DEF Stream!finish, Stream!putNone, Ends, StreamInv
<1> QED
  BY <1>1, <1>2

\* The steps of the runner by what they do to the stream.
LEMMA StepKind ==
  ASSUME StreamInv, Stream!Runner \/ Stream!Stop \/ Stream!Cancel
  PROVE  /\ UNCHANGED Stream!clientVars
         /\ Shorts \/ Quiet \/ Ends \/ \E kind \in Kinds : Yields(kind)
<1>1. CASE Stream!ShortCircuit
  BY <1>1 DEF Stream!ShortCircuit, Stream!set_result, Shorts
<1>2. CASE \/ Stream!Begin \/ Stream!asend \/ Stream!SubResult \/ Stream!SubError
           \/ Stream!Stop \/ Stream!Cancel
  BY <1>2 DEF Stream!Begin, Stream!asend, Stream!SubResult, Stream!SubError, Stream!Stop,
     Stream!Cancel, Quiet, Stream!stateVars, Stream!TaskState, StreamInv
<1>3. ASSUME NEW kind \in Kinds, Stream!Yield(kind) PROVE Yields(kind) /\ UNCHANGED Stream!clientVars
  <2>1. CASE kind = "value"
    BY <1>3, <2>1 DEF Stream!Yield, Stream!yieldData, Stream!putValue, Yields, Stream!Last
  <2>2. CASE kind = "none"
    BY <1>3, <2>2 DEF Stream!Yield, Stream!yieldData, Stream!putNone, Yields, Stream!Last
  <2>3. CASE kind \notin {"value", "none"}
    BY <1>3, <2>3 DEF Stream!Yield, Yields, Stream!stateVars
  <2> QED
    BY <2>1, <2>2, <2>3
<1>4. CASE Stream!SubStopped \/ Stream!GeneratorReturns
  BY <1>4, FinishKind DEF Stream!SubStopped, Stream!GeneratorReturns
<1>5. CASE Stream!GeneratorRaises
  <2>1. CASE done
    BY <1>5, <2>1 DEF Stream!GeneratorRaises, Quiet, Stream!stateVars, Stream!TaskState, StreamInv
  <2>2. CASE ~done
    BY <1>5, <2>2 DEF Stream!GeneratorRaises, Stream!set_exception, Ends, StreamInv
  <2> QED
    BY <1>5, <2>1, <2>2 DEF Stream!GeneratorRaises
<1> QED
  BY <1>1, <1>2, <1>3, <1>4, <1>5 DEF Stream!Runner

\* The stream is empty at first.
LEMMA StreamInit == Stream!Init => StreamInv
<1> SUFFICES ASSUME Stream!Init PROVE StreamInv
  OBVIOUS
<1>1. /\ yields = <<>> /\ results = <<>> /\ queue = <<>>
      /\ done = FALSE /\ exception = FALSE /\ task = "start"
  BY DEF Stream!Init, Stream!StateInit
<1>2. ~HasNone(yields) /\ Holds(yields, results, Len(yields))
  BY <1>1 DEF HasNone, Holds
<1>3. yields \in Seq(Kinds) /\ results \in Seq(Nat) /\ queue \in Seq(Nat)
  BY <1>1
<1>4. task = "start" /\ ~done /\ ~exception /\ done \in BOOLEAN /\ exception \in BOOLEAN
  BY <1>1
<1> QED
  BY <1>1, <1>2, <1>3, <1>4, Zenon DEF StreamInv, Stream!TaskState

\* Every such step keeps the invariant of the stream.
LEMMA StreamNext ==
  ASSUME StreamInv, Shorts \/ Quiet \/ Ends \/ \E kind \in Kinds : Yields(kind)
  PROVE  StreamInv'
<1>1. CASE Shorts
  <2>1. results' \in Seq(Nat) /\ yields' = <<>> /\ ~HasNone(yields')
    BY <1>1 DEF Shorts, StreamInv, Stream!ShortValue, HasNone
  <2> QED
    BY <1>1, <2>1 DEF Shorts, StreamInv, Stream!TaskState
<1>2. CASE Quiet
  BY <1>2 DEF Quiet, StreamInv
<1>3. CASE Ends
  <2>1. queue' \in Seq(Nat)
    BY <1>3 DEF Ends, StreamInv, Stream!Sentinel
  <2> QED
    BY <1>3, <2>1 DEF Ends, StreamInv, Stream!TaskState
<1>4. ASSUME NEW kind \in Kinds, Yields(kind) PROVE StreamInv'
  <2> USE DEF StreamInv
  <2>1. Len(yields) \in Nat /\ yields' \in Seq(Kinds) /\ task # "ended" /\ task # "start"
    BY <1>4 DEF Yields
  <2>2. Len(yields') = Len(yields) + 1 /\ yields' # <<>>
    BY <1>4, AppendProperties DEF Yields
  <2>3. results' \in Seq(Nat) /\ queue' \in Seq(Nat)
    BY <1>4, <2>1 DEF Yields, Stream!Sentinel
  <2>4. Holds(yields', results', Len(yields'))
    <3>1. Holds(yields, results, Len(yields))
      BY <2>1
    <3>2. CASE IsValue(kind)
      <4>1. Holds(yields', Append(results, Len(yields) + 1), Len(yields) + 1)
        BY <1>4, <3>1, <3>2, YieldHolds DEF Yields
      <4> QED
        BY <1>4, <2>2, <3>2, <4>1 DEF Yields, IsValue
    <3>3. CASE ~IsValue(kind)
      <4>1. yields' = Append(yields, kind) /\ yields \in Seq(Kinds) /\ results \in Seq(Nat)
        BY <1>4 DEF Yields
      <4>2. Holds(yields', results, Len(yields) + 1)
        BY <3>1, <3>3, <4>1, YieldHolds
      <4> QED
        BY <1>4, <2>2, <3>3, <4>2 DEF Yields, IsValue
    <3> QED
      BY <3>2, <3>3
  <2>5. IF HasNone(yields) \/ IsNone(kind) THEN HasNone(yields') ELSE ~HasNone(yields')
    BY <1>4, YieldUpTo DEF Yields
  <2>6. /\ task' \in {"next", "sub"} /\ exception' = exception
        /\ done' = (IF kind = "none" THEN TRUE ELSE done)
    BY <1>4 DEF Yields
  <2>7. done => HasNone(yields)
    BY <2>1
  <2>8. /\ done' \in BOOLEAN /\ (done' => HasNone(yields'))
        /\ (HasNone(yields') => done') /\ (exception' => done')
    BY <2>5, <2>6, <2>7 DEF IsNone
  <2> QED
    BY <2>1, <2>3, <2>4, <2>6, <2>8 DEF Stream!TaskState
<1> QED
  BY <1>1, <1>2, <1>3, <1>4
-----------------------------------------------------------------------------
\* What an await returned.
AwaitInv ==
  /\ awaiter \in [Awaiters -> Stream!AwaiterState] /\ got \in [Awaiters -> Seq(Nat)]
  /\ \A x \in Awaiters : awaiter[x] = "returned" =>
       /\ done /\ ~exception
       /\ IF HasNone(yields)
          THEN \E n \in UpTo(yields)..Len(yields) : Holds(yields, got[x], n)
          ELSE got[x] = results

\* A runner's step does not touch what was returned: once the stream is
\* done only a generator that yielded None goes on.
LEMMA AwaitRunner ==
  ASSUME StreamInv, AwaitInv, UNCHANGED Stream!clientVars,
         Shorts \/ Quiet \/ Ends \/ \E kind \in Kinds : Yields(kind)
  PROVE  AwaitInv'
<1> SUFFICES ASSUME NEW x \in Awaiters, awaiter[x] = "returned"
             PROVE  /\ done' /\ ~exception'
                    /\ IF HasNone(yields')
                       THEN \E n \in UpTo(yields')..Len(yields') : Holds(yields', got[x], n)
                       ELSE got[x] = results'
  BY DEF AwaitInv, Stream!clientVars
<1>1. /\ done /\ ~exception /\ got[x] \in Seq(Nat)
      /\ IF HasNone(yields)
         THEN \E n \in UpTo(yields)..Len(yields) : Holds(yields, got[x], n)
         ELSE got[x] = results
  BY DEF AwaitInv
<1>2. CASE Shorts
  <2>1. HasNone(yields) /\ yields = <<>>
    BY <1>1, <1>2 DEF Shorts, StreamInv
  <2> QED
    BY <2>1 DEF HasNone
<1>3. CASE Quiet
  BY <1>1, <1>3 DEF Quiet
<1>4. CASE Ends
  BY <1>1, <1>4 DEF Ends
<1>5. ASSUME NEW kind \in Kinds, Yields(kind)
      PROVE  /\ done' /\ ~exception' /\ HasNone(yields')
             /\ \E n \in UpTo(yields')..Len(yields') : Holds(yields', got[x], n)
  <2>1. HasNone(yields) /\ yields \in Seq(Kinds) /\ yields' = Append(yields, kind)
    BY <1>1, <1>5 DEF Yields, StreamInv
  <2>2. PICK n \in UpTo(yields)..Len(yields) : Holds(yields, got[x], n)
    BY <1>1, <2>1
  <2>3. HasNone(yields') /\ UpTo(yields') = UpTo(yields)
    BY <2>1, YieldUpTo
  <2>4. UpTo(yields) \in 0..Len(yields) /\ Len(yields) \in Nat /\ Len(yields') = Len(yields) + 1
    BY <2>1, UpToType
  <2>5. n \in 0..Len(yields) /\ n \in UpTo(yields')..Len(yields')
    BY <2>3, <2>4
  <2>6. Holds(yields', got[x], n)
    BY <1>1, <2>1, <2>2, <2>5, YieldHolds
  <2> QED
    BY <1>1, <1>5, <2>3, <2>5, <2>6 DEF Yields
<1> QED
  BY <1>2, <1>3, <1>4, <1>5

\* A client that starts or ends its await.
LEMMA AwaitClient ==
  ASSUME StreamInv, AwaitInv, Stream!Client, UNCHANGED Stream!runVars
  PROVE  AwaitInv' /\ UNCHANGED <<results, done, exception, yields, task>>
<1>1. yields' = yields /\ task' = task
  BY DEF Stream!runVars
<1>2. ASSUME NEW x \in Awaiters, Stream!EndAwait(x)
      PROVE  AwaitInv' /\ UNCHANGED <<results, done, exception>>
  <2>1. UNCHANGED <<results, done, exception>> /\ done
    BY <1>2 DEF Stream!EndAwait, Stream!stateVars
  <2>2. CASE exception
    <3>1. got' = got /\ awaiter' = [awaiter EXCEPT ![x] = "raised"]
      BY <1>2, <2>2 DEF Stream!EndAwait
    <3> QED
      BY <1>1, <2>1, <3>1 DEF AwaitInv, Stream!AwaiterState
  <2>3. CASE ~exception
    <3>1. got' = [got EXCEPT ![x] = results] /\ awaiter' = [awaiter EXCEPT ![x] = "returned"]
      BY <1>2, <2>3 DEF Stream!EndAwait
    <3>2. HasNone(yields) => \E n \in UpTo(yields)..Len(yields) : Holds(yields, results, n)
      <4> SUFFICES ASSUME HasNone(yields)
                   PROVE  \E n \in UpTo(yields)..Len(yields) : Holds(yields, results, n)
        OBVIOUS
      <4>1. yields # <<>>
        BY DEF HasNone
      <4>2. Holds(yields, results, Len(yields)) /\ yields \in Seq(Kinds)
        BY <4>1 DEF StreamInv
      <4>3. UpTo(yields) \in 0..Len(yields) /\ Len(yields) \in Nat
        BY <4>2, UpToType
      <4>4. Len(yields) \in UpTo(yields)..Len(yields)
        BY <4>3
      <4> QED
        BY <4>2, <4>4
    <3>3. got' \in [Awaiters -> Seq(Nat)] /\ awaiter' \in [Awaiters -> Stream!AwaiterState]
      BY <3>1 DEF AwaitInv, StreamInv, Stream!AwaiterState
    <3>4. /\ got'[x] = results
          /\ \A y \in Awaiters : y # x => got'[y] = got[y] /\ awaiter'[y] = awaiter[y]
      BY <3>1 DEF AwaitInv
    <3> QED
      BY <1>1, <2>1, <2>3, <3>2, <3>3, <3>4 DEF AwaitInv
  <2> QED
    BY <2>1, <2>2, <2>3
<1>3. ASSUME NEW x \in Awaiters, Stream!StartAwait(x)
      PROVE  AwaitInv' /\ UNCHANGED <<results, done, exception>>
  <2>1. /\ UNCHANGED <<results, done, exception, got>>
        /\ awaiter' = [awaiter EXCEPT ![x] = "waiting"]
    BY <1>3 DEF Stream!StartAwait, Stream!stateVars
  <2> QED
    BY <1>1, <2>1 DEF AwaitInv, Stream!AwaiterState
<1>4. CASE (\E c \in Callbacks : Stream!add_done_callback(c)) \/ \E x \in Readers : Stream!StartReading(x) \/ Stream!Get(x)
  <2>1. UNCHANGED <<results, done, exception, awaiter, got>>
    BY <1>4 DEF Stream!add_done_callback, Stream!StartReading, Stream!Get, Stream!clientVars,
       Stream!stateVars
  <2> QED
    BY <1>1, <2>1 DEF AwaitInv
<1> QED
  BY <1>1, <1>2, <1>3, <1>4 DEF Stream!Client
-----------------------------------------------------------------------------
\* What a reader has seen and will see.
ReadInv ==
  /\ reader \in [Readers -> Stream!ReaderState] /\ seen \in [Readers -> Seq(Nat)]
  /\ \A x \in Readers :
       IF reader[x] = "ended"
       THEN (task = "ended" \/ HasNone(yields)) /\ Holds(yields, seen[x], UpTo(yields))
       ELSE Reads(yields, task = "ended", Len(seen[x]), seen[x] \o queue)

\* There is one reader, as each entrypoint has one.
LoneReader == \A x, y \in Readers : x = y

\* It keeps the reader in step, too.
LEMMA ReadRunner ==
  ASSUME StreamInv, ReadInv, UNCHANGED Stream!clientVars,
         Shorts \/ Quiet \/ Ends \/ \E kind \in Kinds : Yields(kind)
  PROVE  ReadInv'
<1> SUFFICES ASSUME NEW x \in Readers
             PROVE  IF reader[x] = "ended"
                    THEN /\ task' = "ended" \/ HasNone(yields')
                         /\ Holds(yields', seen[x], UpTo(yields'))
                    ELSE Reads(yields', task' = "ended", Len(seen[x]), seen[x] \o queue')
  BY DEF ReadInv, Stream!clientVars
<1> DEFINE l == Len(seen[x])
<1>1. PICK c : c = seen[x] \o queue
  OBVIOUS
<1>2. /\ seen[x] \in Seq(Nat) /\ queue \in Seq(Nat) /\ yields \in Seq(Kinds)
      /\ IF reader[x] = "ended"
         THEN (task = "ended" \/ HasNone(yields)) /\ Holds(yields, seen[x], UpTo(yields))
         ELSE Reads(yields, task = "ended", l, c)
  BY <1>1 DEF ReadInv, StreamInv
<1>3. /\ c \in Seq(Nat) /\ l \in 0..Len(c)
      /\ \A v \in Nat : seen[x] \o Append(queue, v) = Append(c, v)
  BY <1>1, <1>2, SeenAndQueue
<1>4. CASE task' = task /\ UNCHANGED <<yields, queue>>
  BY <1>1, <1>2, <1>4
<1>5. CASE task' = "ended" /\ UNCHANGED yields /\ queue' \in {queue, Append(queue, Stream!Sentinel)}
  <2>1. CASE reader[x] = "ended"
    BY <1>2, <1>5, <2>1
  <2>2. CASE reader[x] # "ended"
    <3>1. Reads(yields, TRUE, l, c) /\ Reads(yields, TRUE, l, Append(c, Stream!Sentinel))
      BY <1>2, <1>3, <2>2, ReadsEnd
    <3>2. seen[x] \o queue' \in {c, Append(c, Stream!Sentinel)}
      BY <1>1, <1>3, <1>5 DEF Stream!Sentinel
    <3>3. Reads(yields, TRUE, l, seen[x] \o queue')
      BY <3>1, <3>2
    <3>4. (task' = "ended") = TRUE
      BY <1>5
    <3> QED
      BY <1>5, <2>2, <3>3, <3>4
  <2> QED
    BY <2>1, <2>2
<1>6. CASE task # "ended" /\ task' # "ended" /\ UNCHANGED <<yields, queue>>
  <2>1. (task = "ended") = FALSE /\ (task' = "ended") = FALSE
    BY <1>6
  <2> QED
    BY <1>1, <1>2, <1>6, <2>1
<1>7. ASSUME NEW kind \in Kinds, Yields(kind)
      PROVE  IF reader[x] = "ended"
             THEN HasNone(yields') /\ Holds(yields', seen[x], UpTo(yields'))
             ELSE Reads(yields', task' = "ended", l, seen[x] \o queue')
  <2>1. /\ yields' = Append(yields, kind) /\ task # "ended" /\ task' # "ended"
        /\ queue' = (IF IsValue(kind) THEN Append(queue, Len(yields) + 1)
                     ELSE IF IsNone(kind) THEN Append(queue, Stream!Sentinel) ELSE queue)
    BY <1>7 DEF Yields, IsValue, IsNone
  <2>2. CASE reader[x] = "ended"
    <3>1. HasNone(yields) /\ Holds(yields, seen[x], UpTo(yields))
      BY <1>2, <2>1, <2>2
    <3>2. HasNone(yields') /\ UpTo(yields') = UpTo(yields) /\ UpTo(yields) \in 0..Len(yields)
      BY <1>2, <2>1, <3>1, YieldUpTo, UpToType
    <3>3. Holds(yields', seen[x], UpTo(yields))
      BY <1>2, <2>1, <3>1, <3>2, YieldHolds
    <3> QED
      BY <2>2, <3>2, <3>3
  <2>3. CASE reader[x] # "ended"
    <3>1. (task = "ended") = FALSE /\ (task' = "ended") = FALSE
      BY <2>1
    <3>2. Reads(yields, FALSE, l, c)
      BY <1>2, <2>3, <3>1
    <3>3. Len(yields) + 1 \in Nat /\ Stream!Sentinel \in Nat
      BY <1>2, UpToType DEF Stream!Sentinel
    <3>4. PICK d : d = seen[x] \o queue'
      OBVIOUS
    <3>5. d = Queued(yields, kind, c)
      BY <1>1, <1>3, <2>1, <3>3, <3>4 DEF Queued
    <3>6. Reads(yields', FALSE, l, d)
      BY <1>2, <1>3, <2>1, <3>2, <3>5, ReadsYield
    <3> QED
      BY <2>3, <3>1, <3>4, <3>6
  <2> QED
    BY <2>2, <2>3
<1>8. CASE Shorts
  BY <1>5, <1>8 DEF Shorts
<1>9. CASE Quiet
  BY <1>4, <1>5, <1>6, <1>9 DEF Quiet
<1>10. CASE Ends
  BY <1>5, <1>10 DEF Ends
<1> QED
  BY <1>7, <1>8, <1>9, <1>10

\* The reader takes from the queue, and it is the only one that does.
LEMMA ReadGet ==
  ASSUME LoneReader, StreamInv, ReadInv, NEW x \in Readers, Stream!Get(x), UNCHANGED Stream!runVars
  PROVE  ReadInv' /\ queue' \in Seq(Nat) /\ UNCHANGED <<results, done, exception, awaiter, got>>
<1>1. /\ yields' = yields /\ task' = task /\ reader[x] = "reading" /\ queue # <<>>
      /\ queue' = Tail(queue)
      /\ UNCHANGED <<results, done, exception, awaiter, got>>
  BY DEF Stream!Get, Stream!runVars
<1> DEFINE s == seen[x]
<1>over. PICK over \in BOOLEAN : over = (task = "ended")
  OBVIOUS
<1>c. PICK c : c = s \o queue
  OBVIOUS
<1>2. /\ s \in Seq(Nat) /\ queue \in Seq(Nat) /\ yields \in Seq(Kinds)
      /\ Reads(yields, over, Len(s), c)
  BY <1>over, <1>c, <1>1 DEF ReadInv, StreamInv
<1>3. /\ Append(s, Head(queue)) \o Tail(queue) = c
      /\ Head(queue) \in Nat /\ Tail(queue) \in Seq(Nat)
      /\ Append(s, Head(queue)) \in Seq(Nat)
      /\ Len(Append(s, Head(queue))) = Len(s) + 1
      /\ c[Len(s) + 1] = Head(queue)
      /\ Len(s) < Len(c)
  BY <1>over, <1>c, <1>1, <1>2, OneSeen
<1>4. c \in Seq(Nat) /\ Len(s) \in 0..Len(c) /\ SubSeq(c, 1, Len(s)) = s
  BY <1>over, <1>c, <1>2, SeenAndQueue
<1>5. \A y \in Readers : y = x
  BY DEF LoneReader
<1>6. CASE Head(queue) = Stream!Sentinel
  <2>1. Holds(yields, s, UpTo(yields)) /\ (over \/ HasNone(yields))
    BY <1>2, <1>3, <1>4, <1>6, ReadsGet
  <2>2. reader' = [reader EXCEPT ![x] = "ended"] /\ seen' = seen
    BY <1>6 DEF Stream!Get
  <2>3. reader' \in [Readers -> Stream!ReaderState] /\ reader'[x] = "ended"
    BY <2>2 DEF ReadInv, Stream!ReaderState
  <2> QED
    BY <1>1, <1>3, <1>5, <2>1, <1>over, <1>c, <2>2, <2>3 DEF ReadInv
<1>7. CASE Head(queue) # Stream!Sentinel
  <2>1. Reads(yields, over, Len(s) + 1, c)
    BY <1>2, <1>3, <1>4, <1>7, ReadsGet
  <2>2. seen' = [seen EXCEPT ![x] = Append(s, Head(queue))] /\ reader' = reader
    BY <1>7 DEF Stream!Get
  <2>3. seen' \in [Readers -> Seq(Nat)] /\ seen'[x] = Append(s, Head(queue))
    BY <1>3, <2>2 DEF ReadInv
  <2>4. Reads(yields, over, Len(seen'[x]), seen'[x] \o queue')
    BY <1>1, <1>3, <2>1, <2>3
  <2> QED
    BY <1>1, <1>3, <1>5, <2>2, <1>over, <1>c, <2>3, <2>4 DEF ReadInv
<1> QED
  BY <1>1, <1>3, <1>6, <1>7

\* Any other step of a client leaves the queue alone.
LEMMA ReadClient ==
  ASSUME LoneReader, StreamInv, ReadInv, Stream!Client, UNCHANGED Stream!runVars
  PROVE  ReadInv' /\ queue' \in Seq(Nat)
<1>1. yields' = yields /\ task' = task /\ queue \in Seq(Nat)
  BY DEF Stream!runVars, StreamInv
<1>2. ASSUME NEW x \in Readers, Stream!StartReading(x) PROVE ReadInv' /\ queue' \in Seq(Nat)
  <2>1. /\ seen' = seen /\ queue' = queue /\ reader[x] = "off"
        /\ reader' = [reader EXCEPT ![x] = "reading"]
    BY <1>2 DEF Stream!StartReading, Stream!stateVars
  <2>2. reader' \in [Readers -> Stream!ReaderState]
    BY <2>1 DEF ReadInv, Stream!ReaderState
  <2>3. \A y \in Readers : reader'[y] = "ended" => reader[y] = "ended"
    BY <2>1 DEF ReadInv
  <2>4. \A y \in Readers : reader[y] = "ended" => reader'[y] = "ended"
    BY <2>1 DEF ReadInv
  <2> QED
    BY <1>1, <2>1, <2>2, <2>3, <2>4 DEF ReadInv
<1>3. CASE (\E c \in Callbacks : Stream!add_done_callback(c)) \/ \E x \in Awaiters : Stream!StartAwait(x) \/ Stream!EndAwait(x)
  <2>1. UNCHANGED <<queue, reader, seen>>
    BY <1>3 DEF Stream!add_done_callback, Stream!StartAwait, Stream!EndAwait,
       Stream!clientVars, Stream!stateVars
  <2> QED
    BY <1>1, <2>1 DEF ReadInv
<1>4. ASSUME NEW x \in Readers, Stream!Get(x) PROVE ReadInv' /\ queue' \in Seq(Nat)
  BY <1>4, ReadGet
<1> QED
  BY <1>2, <1>3, <1>4 DEF Stream!Client

\* A client leaves the queue a sequence of numbers.
LEMMA ClientQueue ==
  ASSUME StreamInv, Stream!Client, UNCHANGED Stream!runVars
  PROVE  queue' \in Seq(Nat)
<1>1. ASSUME NEW x \in Readers, Stream!Get(x) PROVE queue' \in Seq(Nat)
  <2>1. queue \in Seq(Nat) /\ queue # <<>> /\ queue' = Tail(queue)
    BY <1>1 DEF Stream!Get, StreamInv
  <2> QED
    BY <2>1, HeadTailProperties
<1>2. CASE \/ \E c \in Callbacks : Stream!add_done_callback(c)
           \/ \E x \in Readers : Stream!StartReading(x)
           \/ \E x \in Awaiters : Stream!StartAwait(x) \/ Stream!EndAwait(x)
  BY <1>2 DEF Stream!add_done_callback, Stream!StartReading, Stream!StartAwait,
     Stream!EndAwait, Stream!clientVars, Stream!stateVars, StreamInv
<1> QED
  BY <1>1, <1>2 DEF Stream!Client

\* Every step keeps the stream and what awaits returned ...
LEMMA StreamAwaitNext == StreamInv /\ AwaitInv /\ [Stream!Next]_(Stream!vars) => StreamInv' /\ AwaitInv'
<1> SUFFICES ASSUME StreamInv, AwaitInv, [Stream!Next]_(Stream!vars) PROVE StreamInv' /\ AwaitInv'
  OBVIOUS
<1>1. CASE Stream!Runner \/ Stream!Stop \/ Stream!Cancel
  BY <1>1, StepKind, StreamNext, AwaitRunner
<1>2. CASE Stream!Client /\ UNCHANGED Stream!runVars
  <2>1. AwaitInv' /\ UNCHANGED <<results, done, exception, yields, task>> /\ queue' \in Seq(Nat)
    BY <1>2, AwaitClient, ClientQueue
  <2> QED
    BY <2>1 DEF StreamInv
<1>3. CASE UNCHANGED Stream!vars
  BY <1>3 DEF Stream!vars, Stream!runVars, Stream!stateVars, Stream!clientVars, StreamInv, AwaitInv
<1> QED
  BY <1>1, <1>2, <1>3 DEF Stream!Next

\* ... and what a lone reader will see.
LEMMA ReadNext ==
  ASSUME LoneReader
  PROVE  StreamInv /\ ReadInv /\ [Stream!Next]_(Stream!vars) => ReadInv'
<1> SUFFICES ASSUME StreamInv, ReadInv, [Stream!Next]_(Stream!vars) PROVE ReadInv'
  OBVIOUS
<1>1. CASE Stream!Runner \/ Stream!Stop \/ Stream!Cancel
  BY <1>1, StepKind, ReadRunner
<1>2. CASE Stream!Client /\ UNCHANGED Stream!runVars
  BY <1>2, ReadClient
<1>3. CASE UNCHANGED Stream!vars
  BY <1>3 DEF Stream!vars, Stream!runVars, Stream!stateVars, Stream!clientVars, ReadInv
<1> QED
  BY <1>1, <1>2, <1>3 DEF Stream!Next

\* Nobody awaits at first.
LEMMA AwaitInit == Stream!Init => AwaitInv
<1> SUFFICES ASSUME Stream!Init PROVE AwaitInv
  OBVIOUS
<1>1. awaiter = [x \in Awaiters |-> "off"] /\ got = [x \in Awaiters |-> <<>>]
  BY DEF Stream!Init, Stream!StateInit
<1> QED
  BY <1>1 DEF AwaitInv, Stream!AwaiterState

\* Nothing is read at first.
LEMMA ReadInit == Stream!Init => ReadInv
<1> SUFFICES ASSUME Stream!Init PROVE ReadInv
  OBVIOUS
<1>1. /\ yields = <<>> /\ queue = <<>> /\ task = "start"
      /\ reader = [x \in Readers |-> "off"] /\ seen = [x \in Readers |-> <<>>]
  BY DEF Stream!Init, Stream!StateInit
<1>2. reader \in [Readers -> Stream!ReaderState] /\ seen \in [Readers -> Seq(Nat)]
  BY <1>1 DEF Stream!ReaderState
<1>3. PICK e : e = <<>>
  OBVIOUS
<1>4. ~HasNone(e) /\ e \in Seq(Nat) /\ Len(e) = 0 /\ DOMAIN e = {}
  BY <1>3 DEF HasNone
<1>5. SubSeq(e, 1, 0) = e
  BY <1>4, SubSeqFull
<1>6. UpTo(e) = 0
  BY <1>4 DEF UpTo
<1>7. Holds(e, e, 0)
  BY <1>4 DEF Holds
<1>8. Reads(e, FALSE, 0, e)
  <2>1. 0 \in 0..Len(e)
    BY <1>4
  <2>2. Holds(e, SubSeq(e, 1, 0), UpTo(e))
    BY <1>5, <1>6, <1>7, Zenon
  <2> QED
    BY <1>4, <2>1, <2>2 DEF Reads
<1>9. \A x \in Readers : reader[x] # "ended" /\ seen[x] = e /\ seen[x] \o queue = e
  BY <1>1, <1>3, <1>4, ConcatEmptySeq
<1>10. yields = e /\ (task = "ended") = FALSE
  BY <1>1, <1>3
<1> QED
  BY <1>2, <1>4, <1>8, <1>9, <1>10 DEF ReadInv
-----------------------------------------------------------------------------
\* What the invariant says of an await that returned.
LEMMA AwaitInvFinal == StreamInv /\ AwaitInv => Stream!AwaitFinal
<1> SUFFICES ASSUME StreamInv, AwaitInv, NEW x \in Awaiters, awaiter[x] = "returned"
             PROVE  /\ ~exception
                    /\ IF Stream!YieldedNone THEN \E n \in Stream!Visible..Stream!Last : Stream!Streams(got[x], n)
                                      ELSE got[x] = results
  BY DEF Stream!AwaitFinal
<1> QED
  BY StreamsHolds DEF AwaitInv, Stream!Last

\* What the invariant says of a reader that ended.
LEMMA ReadInvComplete == StreamInv /\ ReadInv => Stream!ReaderComplete
<1> SUFFICES ASSUME StreamInv, ReadInv, NEW x \in Readers
             PROVE  /\ \E n \in 0..Stream!Visible : Stream!Streams(seen[x], n)
                    /\ reader[x] = "ended" =>
                         (task = "ended" \/ Stream!YieldedNone) /\ Stream!Streams(seen[x], Stream!Visible)
  BY DEF Stream!ReaderComplete
<1>1. yields \in Seq(Kinds) /\ seen[x] \in Seq(Nat) /\ queue \in Seq(Nat)
  BY DEF StreamInv, ReadInv
<1>2. UpTo(yields) \in Nat
  BY <1>1, UpToType
<1>3. CASE reader[x] = "ended"
  BY <1>2, <1>3, StreamsHolds DEF ReadInv
<1>4. CASE reader[x] # "ended"
  <2>1. Reads(yields, task = "ended", Len(seen[x]), seen[x] \o queue)
    BY <1>4 DEF ReadInv
  <2>o. PICK o \in BOOLEAN : o = (task = "ended")
    OBVIOUS
  <2>2. PICK l, c : l = Len(seen[x]) /\ c = seen[x] \o queue
    OBVIOUS
  <2>3. c \in Seq(Nat) /\ l \in 0..Len(c) /\ SubSeq(c, 1, l) = seen[x]
    BY <1>1, <2>2, SeenAndQueue
  <2>4. Reads(yields, o, l, c)
    BY <2>1, <2>2, <2>o
  <2>5. \E n \in 0..UpTo(yields) : Holds(yields, seen[x], n)
    BY <1>1, <2>3, <2>4, ReadsSeen
  <2> QED
    BY <1>4, <2>5, StreamsHolds
<1> QED
  BY <1>3, <1>4
-----------------------------------------------------------------------------
\* A step of the whole is one of the stream or leaves it alone.
LEMMA StreamStep == [MCNext]_<<vars, streamVars, subject>> => [Stream!Next]_(Stream!vars)
BY DEF MCNext, streamVars, Stream!vars, Stream!stateVars, Stream!clientVars, Stream!runVars

(* A callback that somebody registers is scheduled once and only when the  *)
(* stream is done, whenever it is registered and however the stream ends.  *)
THEOREM StreamCallbacksOnce == MCSpec => []CallbacksOnce
<1>1. MCInit => CInv
  BY CallbacksInit DEF MCInit
<1>2. CInv => CallbacksOnce
  BY DEF CInv, CallbacksOnce, Stream!CallbacksOnce
<1> QED
  BY <1>1, <1>2, CallbacksNext, StreamStep, PTL DEF MCSpec

(* What the generator is resumed with belongs to its last yield, in        *)
(* whatever order values, sub-commands and their failures follow one       *)
(* another, and whenever the task is cancelled.                            *)
THEOREM StreamAnswersMatch == MCSpec => []AnswersMatch
<1>1. MCInit => AInv
  BY AnswersInit DEF MCInit
<1>2. AInv => AnswersMatch
  BY AnswersInvMatch DEF AnswersMatch
<1> QED
  BY <1>1, <1>2, AnswersNext, StreamStep, PTL DEF MCSpec

(* What an await returned holds the whole stream and is final, unless the  *)
(* generator goes on after a `yield None'.                                 *)
THEOREM StreamAwaitFinal == MCSpec => []AwaitFinal
<1>1. MCInit => StreamInv /\ AwaitInv
  BY StreamInit, AwaitInit DEF MCInit
<1>2. StreamInv /\ AwaitInv => AwaitFinal
  BY AwaitInvFinal DEF AwaitFinal
<1> QED
  BY <1>1, <1>2, StreamAwaitNext, StreamStep, PTL DEF MCSpec

(* A lone reader sees the streamed values in order, each once, and all of  *)
(* them up to the end of the stream, however its steps interleave with the *)
(* generator's.  Readers that share a stream would take values from each   *)
(* other.                                                                  *)
THEOREM StreamReaderComplete ==
  ASSUME LoneReader
  PROVE  MCSpec => []ReaderComplete
<1>1. MCInit => StreamInv /\ AwaitInv /\ ReadInv
  BY StreamInit, AwaitInit, ReadInit DEF MCInit
<1>2. StreamInv /\ ReadInv => ReaderComplete
  BY ReadInvComplete DEF ReaderComplete
<1> QED
  BY <1>1, <1>2, StreamAwaitNext, ReadNext, StreamStep, PTL DEF MCSpec
=============================================================================
