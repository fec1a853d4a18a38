------------------------- MODULE HttpClients_proofs -------------------------
(***************************************************************************)
(* The retry loops and the cooldown, for any number of tasks, any delays,  *)
(* budgets and cooldown, and whatever the servers reply.                   *)
(***************************************************************************)
EXTENDS HttpClients, Induction_proofs, SequenceTheorems

Fields == {"pc", "op", "messages", "attempt", "rounds", "sleep", "until", "result", "content",
           "sent", "last", "raw", "passed"}

\* The request r of task t keeps its fields, and what is counted in it stays
\* a number.
Typed(t, r) ==
    /\ Fields \subseteq DOMAIN r
    /\ r.until \in Nat /\ r.sent \in Nat /\ r.rounds \in 0..MaxShrinks
    /\ Minimax(t) => r.sleep \in Nat /\ r.attempt \in 1..Len(Delays)
    /\ ~Minimax(t) => r.attempt \in 1..MaxAttempts

\* Only MiniMax knows a cooldown.
OwnStates(t, r) == ~Minimax(t) => r.pc \in {"idle", "sleep", "send", "flight", "done"}

\* The last 429 has been recorded, unless its task is about to.
Recorded(r) == r.pc # "set" => cooldown >= r.until

\* Whoever sleeps until a deadline sleeps through the cooldown, unless that
\* was raised meanwhile; then nothing of it is left when the request goes out.
SleptThrough(t, r) ==
    Minimax(t) /\ ~r.passed => /\ r.pc = "cool" => cooldown <= r.sleep
                               /\ r.pc = "send" => cooldown = 0

\* How often a request was sent: once per attempt, and all attempts of the
\* rounds before; an attempt that is still to come has not been sent.
Waiting(t, r) == r.pc \in {"check", "cool", "send"} \/ (r.pc = "sleep" /\ Minimax(t))

Earlier(t, r) == IF Minimax(t) THEN Len(Delays) * r.rounds ELSE 0

Counted(t, r) == /\ r.sent <= Earlier(t, r) + r.attempt
                 /\ Waiting(t, r) => r.sent < Earlier(t, r) + r.attempt

\* What an attempt that may be the last one came back with.
WorthARetry(t, r) == r.pc = "set" \/ (r.pc = "sleep" /\ ~Minimax(t)) => r.last \in Retried(t)

Exhausted(t, r) ==
    r.pc = "done" /\ r.result = "err" =>
       \/ r.last \in Fatal(t)
       \/ r.last \in Retried(t) /\ r.attempt = (IF Minimax(t) THEN Len(Delays) ELSE MaxAttempts)
       \/ r.last = "overflow" /\ r.rounds = MaxShrinks

\* What does not depend on the cooldown.
Fits(t, r) ==
    /\ Typed(t, r) /\ OwnStates(t, r)
    /\ Counted(t, r) /\ WorthARetry(t, r) /\ Exhausted(t, r)

Sound(t, r) == Fits(t, r) /\ Recorded(r) /\ SleptThrough(t, r)

\* CooldownHeld and RetriesBounded are inductive only with where a request is:
\* what it still has to send, and what it has yet to record or to sleep.
IInv ==
    /\ cooldown \in Nat /\ DOMAIN req = Tasks
    /\ \A t \in Tasks : Sound(t, req[t])

-----------------------------------------------------------------------------
LEMMA Delayed == /\ Len(Delays) \in Nat \ {0}
                 /\ \A i \in 1..Len(Delays) : Delays[i] \subseteq Nat
BY HttpAssumption

\* One more round makes room for all attempts once more.
LEMMA OneMoreRound ==
    ASSUME NEW n \in Nat, NEW k \in Nat
    PROVE  n * k \in Nat /\ n * (k + 1) = n * k + n
OBVIOUS

LEMMA RoundsMonotonic ==
    ASSUME NEW n \in Nat, NEW k \in Nat, NEW m \in Nat, k <= m
    PROVE  n * k <= n * m
<1>1. m - k \in Nat /\ m = k + (m - k)
  OBVIOUS
<1>2. n * m = n * k + n * (m - k) /\ n * (m - k) \in Nat
  BY <1>1
<1> QED
  BY <1>2

LEMMA InitHolds == Init => IInv
<1> SUFFICES ASSUME Init, NEW t \in Tasks PROVE Sound(t, req[t])
  BY DEF Init, IInv
<1>1. req[t] = Idle /\ cooldown = 0
  BY DEF Init
<1>2. Typed(t, Idle)
  BY Delayed, HttpAssumption DEF Typed, Idle, Fields
<1>3. Counted(t, Idle)
  BY Delayed, HttpAssumption, OneMoreRound DEF Counted, Idle, Waiting, Earlier
<1> QED
  BY <1>1, <1>2, <1>3
     DEF Sound, Fits, Idle, OwnStates, Recorded, SleptThrough, WorthARetry, Exhausted

\* A step of one task that leaves the cooldown alone.
LEMMA GoKeeps ==
    ASSUME IInv, NEW t \in Tasks, NEW r, Go(t, r), Sound(t, r)
    PROVE  IInv'
<1>1. cooldown' = cooldown /\ DOMAIN req' = Tasks
  BY DEF IInv, Go
<1>2. ASSUME NEW u \in Tasks PROVE Sound(u, req[u])'
  <2>1. req'[u] = IF u = t THEN r ELSE req[u]
    BY DEF IInv, Go
  <2>2. Sound(u, req'[u])
    BY <2>1 DEF IInv
  <2> QED
    BY <1>1, <2>2 DEF Sound, Fits, Typed, OwnStates, Recorded, SleptThrough, Counted, Waiting, Earlier,
       WorthARetry, Exhausted, Minimax, Retried, Fatal
<1> QED
  BY <1>1, <1>2 DEF IInv
LEMMA CallKeeps ==
    ASSUME IInv, NEW t \in Tasks, NEW q, call(t, q)
    PROVE  IInv'
<1> DEFINE r == [Idle EXCEPT !.pc = IF Minimax(t) THEN "check" ELSE "send",
                             !.op = q.op, !.messages = wire(t, q.messages)]
<1>1. /\ Fields \subseteq DOMAIN r /\ r.pc = (IF Minimax(t) THEN "check" ELSE "send")
      /\ r.attempt = 1 /\ r.rounds = 0 /\ r.until = 0 /\ r.sleep = 0 /\ r.sent = 0
  BY DEF Idle, Fields
<1>2. req' = [req EXCEPT ![t] = r] /\ cooldown' = cooldown
  BY DEF call
<1> HIDE DEF r
<1>3. Typed(t, r)
  BY <1>1, Delayed, HttpAssumption DEF Typed
<1>4. Counted(t, r)
  BY <1>1, Delayed, HttpAssumption, OneMoreRound DEF Counted, Waiting, Earlier
<1>5. Sound(t, r)
  BY <1>1, <1>3, <1>4 DEF Sound, Fits, IInv, OwnStates, Recorded, SleptThrough, WorthARetry, Exhausted
<1>6. cooldown' \in Nat /\ DOMAIN req' = Tasks
  BY <1>2 DEF IInv
<1>7. ASSUME NEW u \in Tasks PROVE Sound(u, req[u])'
  <2>1. req'[u] = IF u = t THEN r ELSE req[u]
    BY <1>2 DEF IInv
  <2>2. Sound(u, req'[u])
    BY <1>5, <2>1 DEF IInv
  <2> QED
    BY <1>2, <2>2 DEF Sound, Fits, Typed, OwnStates, Recorded, SleptThrough, Counted, Waiting, Earlier,
       WorthARetry, Exhausted, Minimax, Retried, Fatal
<1> QED
  BY <1>6, <1>7 DEF IInv

\* A request that returns with an error must not have had another chance.
LEMMA FailedFits ==
    ASSUME NEW t \in Tasks, NEW r, Typed(t, r), r.sent <= Earlier(t, r) + r.attempt,
           Exhausted(t, [r EXCEPT !.pc = "done", !.result = "err"])
    PROVE  /\ Fits(t, Failed(r))
           /\ Failed(r).pc = "done" /\ Failed(r).until = r.until
<1> DEFINE f == Failed(r)
<1>1. /\ Fields \subseteq DOMAIN f /\ f.pc = "done" /\ f.result = "err"
      /\ f.attempt = r.attempt /\ f.rounds = r.rounds /\ f.until = r.until
      /\ f.sleep = r.sleep /\ f.sent = r.sent /\ f.last = r.last
  BY DEF Typed, Fields, Failed, Returned
<1>2. /\ [r EXCEPT !.pc = "done", !.result = "err"].pc = "done"
      /\ [r EXCEPT !.pc = "done", !.result = "err"].result = "err"
      /\ [r EXCEPT !.pc = "done", !.result = "err"].attempt = r.attempt
      /\ [r EXCEPT !.pc = "done", !.result = "err"].rounds = r.rounds
      /\ [r EXCEPT !.pc = "done", !.result = "err"].last = r.last
  BY DEF Typed, Fields
<1> HIDE DEF f
<1>3. Exhausted(t, f)
  BY <1>1, <1>2 DEF Exhausted
<1>4. Typed(t, f) /\ Counted(t, f)
  BY <1>1 DEF Typed, Counted, Waiting, Earlier
<1>5. Fits(t, f)
  BY <1>1, <1>3, <1>4 DEF Fits, OwnStates, WorthARetry
<1> QED
  BY <1>1, <1>5 DEF f

\* What comes after an attempt that may be tried again.
LEMMA AgainFits ==
    ASSUME NEW t \in Tasks, NEW r, Typed(t, r), r.sent <= Earlier(t, r) + r.attempt,
           r.last \in Retried(t), NEW next \in Again(t, r)
    PROVE  /\ Fits(t, next)
           /\ next.pc \in {"sleep", "done"} /\ next.until = r.until
<1>1. CASE ~Minimax(t)
  <2>1. next = [r EXCEPT !.pc = "sleep", !.sleep = backoff_delay(r.attempt)]
    BY <1>1 DEF Again
  <2>2. /\ Fields \subseteq DOMAIN next /\ next.pc = "sleep"
        /\ next.attempt = r.attempt /\ next.rounds = r.rounds /\ next.until = r.until
        /\ next.sent = r.sent /\ next.last = r.last
    BY <2>1 DEF Typed, Fields
  <2>3. Typed(t, next) /\ Counted(t, next)
    BY <1>1, <2>2 DEF Typed, Counted, Waiting, Earlier
  <2> QED
    BY <1>1, <2>2, <2>3 DEF Fits, OwnStates, WorthARetry, Exhausted
<1>2. CASE Minimax(t) /\ r.attempt = Len(Delays)
  <2>1. next = Failed(r)
    BY <1>2 DEF Again
  <2>2. Exhausted(t, [r EXCEPT !.pc = "done", !.result = "err"])
    BY <1>2 DEF Exhausted, Typed, Fields
  <2> QED
    BY <2>1, <2>2, FailedFits
<1>3. CASE Minimax(t) /\ r.attempt # Len(Delays)
  <2>1. PICK d \in Delays[r.attempt + 1] :
               next = [r EXCEPT !.pc = "sleep", !.attempt = r.attempt + 1, !.sleep = d]
    BY <1>3 DEF Again, Typed, Fields
  <2>2. r.attempt \in 1..Len(Delays) /\ r.attempt + 1 \in 1..Len(Delays) /\ d \in Nat
    BY <1>3, <2>1, Delayed DEF Typed
  <2>3. /\ Fields \subseteq DOMAIN next /\ next.pc = "sleep"
        /\ next.attempt = r.attempt + 1 /\ next.rounds = r.rounds /\ next.until = r.until
        /\ next.sleep = d /\ next.sent = r.sent /\ next.last = r.last
    BY <2>1 DEF Typed, Fields
  <2>4. Earlier(t, r) \in Nat /\ Earlier(t, next) = Earlier(t, r)
    BY <1>3, <2>3, Delayed, HttpAssumption, OneMoreRound DEF Earlier, Typed
  <2>5. Typed(t, next) /\ Counted(t, next)
    BY <1>3, <2>2, <2>3, <2>4 DEF Typed, Counted
  <2> QED
    BY <1>3, <2>3, <2>5 DEF Fits, OwnStates, WorthARetry, Exhausted
<1> QED
  BY <1>1, <1>2, <1>3
-----------------------------------------------------------------------------
LEMMA WakeKeeps ==
    ASSUME IInv, NEW t \in Tasks, wake(t)
    PROVE  IInv'
<1> DEFINE r == req[t]
<1>1. Sound(t, r) /\ cooldown \in Nat /\ r.pc = "sleep"
  BY DEF IInv, wake, At
<1>2. CASE Minimax(t)
  <2> DEFINE next == [r EXCEPT !.pc = "check"]
  <2>1. Go(t, next)
    BY <1>2 DEF wake
  <2>2. Sound(t, next)
    BY <1>1, <1>2 DEF Sound, Fits, Typed, Fields, OwnStates, Recorded, SleptThrough, Counted, Waiting,
       Earlier, WorthARetry, Exhausted
  <2> QED
    BY <2>1, <2>2, GoKeeps
<1>3. CASE ~Minimax(t) /\ r.attempt = MaxAttempts
  <2>1. Go(t, Failed(r))
    BY <1>3 DEF wake
  <2>2. Exhausted(t, [r EXCEPT !.pc = "done", !.result = "err"])
    BY <1>1, <1>3 DEF Sound, Fits, Exhausted, WorthARetry, Typed, Fields
  <2>3. Sound(t, Failed(r))
    BY <1>1, <2>2, FailedFits DEF Sound, Fits, Recorded, SleptThrough, Counted
  <2> QED
    BY <2>1, <2>3, GoKeeps
<1>4. CASE ~Minimax(t) /\ r.attempt # MaxAttempts
  <2> DEFINE next == [r EXCEPT !.pc = "send", !.attempt = r.attempt + 1]
  <2>1. Go(t, next)
    BY <1>4 DEF wake
  <2>2. /\ Fields \subseteq DOMAIN next /\ next.pc = "send" /\ next.attempt = r.attempt + 1
        /\ next.rounds = r.rounds /\ next.until = r.until /\ next.sent = r.sent
    BY <1>1 DEF Sound, Fits, Typed, Fields
  <2> HIDE DEF next
  <2>3. /\ r.attempt \in 1..MaxAttempts /\ r.sent \in Nat /\ r.sent <= 0 + r.attempt
        /\ Earlier(t, next) = 0
    BY <1>1, <1>4 DEF Sound, Fits, Typed, Counted, Earlier
  <2>4. Typed(t, next)
    BY <1>1, <1>4, <2>2, <2>3, HttpAssumption DEF Sound, Fits, Typed
  <2>5. Counted(t, next)
    BY <2>2, <2>3, HttpAssumption DEF Counted
  <2>6. Sound(t, next)
    BY <1>1, <1>4, <2>2, <2>4, <2>5
       DEF Sound, Fits, OwnStates, Recorded, SleptThrough, WorthARetry, Exhausted
  <2> QED
    BY <2>1, <2>6, GoKeeps
<1> QED
  BY <1>2, <1>3, <1>4

LEMMA WaitCooldownKeeps ==
    ASSUME IInv, NEW t \in Tasks, wait_cooldown(t)
    PROVE  IInv'
<1> DEFINE r == req[t]
           next == [r EXCEPT !.pc = IF cooldown > 0 THEN "cool" ELSE "send",
                             !.sleep = cooldown, !.passed = FALSE]
<1>1. Sound(t, r) /\ cooldown \in Nat /\ r.pc = "check" /\ Go(t, next)
  BY DEF IInv, wait_cooldown, At
<1>2. /\ Fields \subseteq DOMAIN next /\ next.pc = (IF cooldown > 0 THEN "cool" ELSE "send")
      /\ next.sleep = cooldown /\ next.attempt = r.attempt /\ next.rounds = r.rounds
      /\ next.until = r.until /\ next.sent = r.sent
  BY <1>1 DEF Sound, Fits, Typed, Fields
<1> HIDE DEF next
<1>3. Typed(t, next) /\ Counted(t, next)
  BY <1>1, <1>2 DEF Sound, Fits, Typed, Counted, Waiting, Earlier
<1>4. Sound(t, next)
  BY <1>1, <1>2, <1>3 DEF Sound, Fits, OwnStates, Recorded, SleptThrough, WorthARetry, Exhausted
<1> QED
  BY <1>1, <1>4, GoKeeps

LEMMA CooledKeeps ==
    ASSUME IInv, NEW t \in Tasks, cooled(t)
    PROVE  IInv'
<1> DEFINE r == req[t]
           next == [r EXCEPT !.pc = "send"]
<1>1. Sound(t, r) /\ cooldown \in Nat /\ r.pc = "cool" /\ r.sleep = 0 /\ Go(t, next)
  BY DEF IInv, cooled, At
<1>2. /\ Fields \subseteq DOMAIN next /\ next.pc = "send" /\ next.passed = r.passed
      /\ next.sleep = r.sleep /\ next.attempt = r.attempt /\ next.rounds = r.rounds
      /\ next.until = r.until /\ next.sent = r.sent
  BY <1>1 DEF Sound, Fits, Typed, Fields
<1> HIDE DEF next
<1>3. Typed(t, next) /\ Counted(t, next)
  BY <1>1, <1>2 DEF Sound, Fits, Typed, Counted, Waiting, Earlier
<1>4. SleptThrough(t, next)
  BY <1>1, <1>2 DEF Sound, Fits, SleptThrough
<1>5. Sound(t, next)
  BY <1>1, <1>2, <1>3, <1>4 DEF Sound, Fits, OwnStates, Recorded, WorthARetry, Exhausted
<1> QED
  BY <1>1, <1>5, GoKeeps

LEMMA SendKeeps ==
    ASSUME IInv, NEW t \in Tasks, send(t)
    PROVE  IInv'
<1> DEFINE r == req[t]
           next == [r EXCEPT !.pc = "flight", !.sent = Smaller(r.sent, Budget(t)) + 1]
<1>1. Sound(t, r) /\ cooldown \in Nat /\ r.pc = "send" /\ Go(t, next)
  BY DEF IInv, send, At
<1>2. /\ Fields \subseteq DOMAIN next /\ next.pc = "flight"
      /\ next.sent = Smaller(r.sent, Budget(t)) + 1
      /\ next.sleep = r.sleep /\ next.attempt = r.attempt /\ next.rounds = r.rounds
      /\ next.until = r.until
  BY <1>1 DEF Sound, Fits, Typed, Fields
<1> HIDE DEF next
<1>3. Budget(t) \in Nat
  BY Delayed, HttpAssumption, OneMoreRound DEF Budget
<1>4. next.sent \in Nat /\ next.sent <= r.sent + 1
  BY <1>1, <1>2, <1>3 DEF Smaller, Sound, Fits, Typed
<1>5. Earlier(t, r) \in Nat /\ Earlier(t, next) = Earlier(t, r)
  BY <1>1, <1>2, Delayed, HttpAssumption, OneMoreRound DEF Earlier, Sound, Fits, Typed
<1>6. r.attempt \in Nat
  BY <1>1, Delayed, HttpAssumption DEF Sound, Fits, Typed
<1>7. r.sent < Earlier(t, r) + r.attempt /\ r.sent \in Nat
  BY <1>1 DEF Sound, Fits, Counted, Waiting, Typed
<1>8. Typed(t, next) /\ Counted(t, next)
  BY <1>1, <1>2, <1>4, <1>5, <1>6, <1>7 DEF Sound, Fits, Typed, Counted, Waiting
<1>9. Sound(t, next)
  BY <1>1, <1>2, <1>8 DEF Sound, Fits, OwnStates, Recorded, SleptThrough, WorthARetry, Exhausted
<1> QED
  BY <1>1, <1>9, GoKeeps

-----------------------------------------------------------------------------
\* A reply changes nothing of a request in flight but what came back last.
LEMMA RepliedSound ==
    ASSUME IInv, NEW t \in Tasks, At(t, "flight"), NEW reply
    PROVE  LET r == Replied(t, reply) IN
           /\ Typed(t, r) /\ Counted(t, r) /\ r.pc = "flight" /\ r.last = reply
           /\ cooldown \in Nat /\ cooldown >= r.until
           /\ r.attempt = req[t].attempt /\ r.rounds = req[t].rounds /\ r.sent = req[t].sent
<1> DEFINE r == Replied(t, reply)
<1>1. Sound(t, req[t]) /\ cooldown \in Nat /\ req[t].pc = "flight"
  BY DEF IInv, At
<1>2. /\ Fields \subseteq DOMAIN r /\ r.pc = "flight" /\ r.last = reply
      /\ r.until = req[t].until /\ r.sleep = req[t].sleep /\ r.attempt = req[t].attempt
      /\ r.rounds = req[t].rounds /\ r.sent = req[t].sent
  BY <1>1 DEF Replied, Sound, Fits, Typed, Fields
<1> HIDE DEF r
<1>3. Typed(t, r) /\ Counted(t, r) /\ cooldown >= r.until
  BY <1>1, <1>2 DEF Sound, Fits, Typed, Counted, Waiting, Earlier, Recorded
<1> QED
  BY <1>1, <1>2, <1>3 DEF r

LEMMA ReplyOkKeeps ==
    ASSUME IInv, NEW t \in Tasks, NEW raw, reply_ok(t, raw)
    PROVE  IInv'
<1> DEFINE r == Replied(t, "ok")
           content == IF Minimax(t) THEN Cleaned[raw] ELSE raw
           result == IF req[t].op = "judge" THEN Verdict(content) ELSE "ok"
           next == [Returned(r, result, content) EXCEPT !.raw = raw]
<1>1. At(t, "flight") /\ Go(t, next) /\ result # "err"
  BY DEF reply_ok, Verdict
<1>2. Typed(t, r) /\ Counted(t, r) /\ cooldown >= r.until
  BY <1>1, RepliedSound
<1> HIDE DEF r, result, content
<1>3. /\ Fields \subseteq DOMAIN next /\ next.pc = "done" /\ next.result = result
      /\ next.attempt = r.attempt /\ next.rounds = r.rounds /\ next.until = r.until
      /\ next.sleep = r.sleep /\ next.sent = r.sent
  BY <1>2 DEF Returned, Typed, Fields
<1> HIDE DEF next
<1>4. Typed(t, next) /\ Counted(t, next)
  BY <1>2, <1>3 DEF Typed, Counted, Waiting, Earlier
<1>5. Sound(t, next)
  BY <1>1, <1>2, <1>3, <1>4 DEF Sound, Fits, OwnStates, Recorded, SleptThrough, WorthARetry, Exhausted
<1> QED
  BY <1>1, <1>5, GoKeeps

LEMMA ReplyFatalKeeps ==
    ASSUME IInv, NEW t \in Tasks, NEW reply \in Fatal(t), reply_fatal(t, reply)
    PROVE  IInv'
<1> DEFINE r == Replied(t, reply)
<1>1. At(t, "flight") /\ Go(t, Failed(r))
  BY DEF reply_fatal
<1>2. /\ Typed(t, r) /\ Counted(t, r) /\ r.last = reply
      /\ cooldown \in Nat /\ cooldown >= r.until
  BY <1>1, RepliedSound
<1> HIDE DEF r
<1>3. Exhausted(t, [r EXCEPT !.pc = "done", !.result = "err"])
  BY <1>2 DEF Exhausted, Typed, Fields
<1>4. Sound(t, Failed(r))
  BY <1>2, <1>3, FailedFits DEF Sound, Recorded, SleptThrough, Counted
<1> QED
  BY <1>1, <1>4, GoKeeps

LEMMA ReplyRetriedKeeps ==
    ASSUME IInv, NEW t \in Tasks, NEW reply \in Retried(t), reply_retried(t, reply)
    PROVE  IInv'
<1> DEFINE r == Replied(t, reply)
<1>1. At(t, "flight")
  BY DEF reply_retried
<1>2. /\ Typed(t, r) /\ Counted(t, r) /\ r.pc = "flight" /\ r.last = reply
      /\ cooldown \in Nat /\ cooldown >= r.until
  BY <1>1, RepliedSound
<1>3. CASE Throttled(t, reply)
  <2> DEFINE next == [r EXCEPT !.pc = "set", !.until = Cooldown]
  <2>1. Go(t, next)
    BY <1>3 DEF reply_retried
  <2> HIDE DEF r
  <2>2. /\ Fields \subseteq DOMAIN next /\ next.pc = "set" /\ next.until = Cooldown
        /\ next.attempt = r.attempt /\ next.rounds = r.rounds /\ next.sleep = r.sleep
        /\ next.sent = r.sent /\ next.last = reply
    BY <1>2 DEF Typed, Fields
  <2> HIDE DEF next
  <2>3. Typed(t, next) /\ Counted(t, next) /\ Minimax(t)
    BY <1>2, <1>3, <2>2, HttpAssumption DEF Typed, Counted, Waiting, Earlier, Throttled
  <2>4. Sound(t, next)
    BY <2>2, <2>3 DEF Sound, Fits, OwnStates, Recorded, SleptThrough, WorthARetry, Exhausted
  <2> QED
    BY <2>1, <2>4, GoKeeps
<1>4. CASE ~Throttled(t, reply)
  <2>1. PICK next \in Again(t, r) : Go(t, next)
    BY <1>4 DEF reply_retried
  <2> HIDE DEF r
  <2>2. Sound(t, next)
    BY <1>2, AgainFits DEF Sound, Recorded, SleptThrough, Counted
  <2> QED
    BY <2>1, <2>2, GoKeeps
<1> QED
  BY <1>3, <1>4

LEMMA ReplyOverflowKeeps ==
    ASSUME IInv, NEW t \in Tasks, NEW n, reply_overflow(t, n)
    PROVE  IInv'
<1> DEFINE r == Replied(t, "overflow")
           next == [r EXCEPT !.pc = "check", !.messages = Shrunk(r.messages, n), !.attempt = 1,
                             !.rounds = r.rounds + 1]
<1>1. At(t, "flight") /\ Minimax(t)
  BY DEF reply_overflow
<1>2. /\ Typed(t, r) /\ Counted(t, r) /\ r.pc = "flight" /\ r.last = "overflow"
      /\ cooldown \in Nat /\ cooldown >= r.until
  BY <1>1, RepliedSound
<1>3. Go(t, IF r.rounds >= MaxShrinks THEN Failed(r) ELSE next)
  BY DEF reply_overflow
<1> HIDE DEF r
<1>4. CASE r.rounds >= MaxShrinks
  <2>1. r.rounds = MaxShrinks
    BY <1>2, <1>4, HttpAssumption DEF Typed
  <2>2. Exhausted(t, [r EXCEPT !.pc = "done", !.result = "err"])
    BY <1>2, <2>1 DEF Exhausted, Typed, Fields
  <2>3. Sound(t, Failed(r))
    BY <1>2, <2>2, FailedFits DEF Sound, Recorded, SleptThrough, Counted
  <2> QED
    BY <1>3, <1>4, <2>3, GoKeeps
<1>5. CASE ~(r.rounds >= MaxShrinks)
  <2>1. /\ Fields \subseteq DOMAIN next /\ next.pc = "check" /\ next.attempt = 1
        /\ next.rounds = r.rounds + 1 /\ next.until = r.until /\ next.sleep = r.sleep
        /\ next.sent = r.sent
    BY <1>2 DEF Typed, Fields
  <2> HIDE DEF next
  <2>2. r.rounds \in Nat /\ next.rounds \in 0..MaxShrinks
    BY <1>2, <1>5, <2>1, HttpAssumption DEF Typed
  <2>3. /\ Earlier(t, r) \in Nat
        /\ Earlier(t, next) = Earlier(t, r) + Len(Delays)
    BY <1>1, <2>1, <2>2, Delayed, OneMoreRound DEF Earlier
  <2>4. Typed(t, next)
    BY <1>1, <1>2, <2>1, <2>2, Delayed DEF Typed
  <2>5. r.sent <= Earlier(t, r) + r.attempt /\ r.attempt \in 1..Len(Delays) /\ r.sent \in Nat
    BY <1>1, <1>2 DEF Counted, Typed
  <2>6. Counted(t, next)
    BY <2>1, <2>3, <2>5, Delayed DEF Counted
  <2>7. Sound(t, next)
    BY <1>1, <1>2, <2>1, <2>4, <2>6
       DEF Sound, Fits, OwnStates, Recorded, SleptThrough, WorthARetry, Exhausted
  <2> QED
    BY <1>3, <1>5, <2>7, GoKeeps
<1> QED
  BY <1>4, <1>5

-----------------------------------------------------------------------------
\* Raising the cooldown keeps what was recorded, and marks whoever it passed.
LEMMA SetCooldownKeeps ==
    ASSUME IInv, NEW t \in Tasks, set_cooldown(t)
    PROVE  IInv'
<1> DEFINE r == req[t]
<1>1. Sound(t, r) /\ cooldown \in Nat /\ r.pc = "set" /\ DOMAIN req = Tasks
  BY DEF IInv, set_cooldown, At
<1>2. PICK next \in Again(t, r) : req' = PassedBy(t, next)
  BY DEF set_cooldown
<1>3. /\ cooldown' \in Nat /\ cooldown' >= cooldown /\ cooldown' >= r.until
      /\ ~(r.until > cooldown) => cooldown' = cooldown
  BY <1>1 DEF set_cooldown, Larger, Sound, Fits, Typed
<1>4. DOMAIN req' = Tasks
  BY <1>2 DEF PassedBy
<1>5. Sound(t, req[t])'
  <2>1. req'[t] = next
    BY <1>2 DEF PassedBy
  <2>2. /\ Typed(t, r) /\ r.sent <= Earlier(t, r) + r.attempt /\ r.last \in Retried(t)
    BY <1>1 DEF Sound, Fits, Counted, WorthARetry
  <2>3. Fits(t, next) /\ next.pc \in {"sleep", "done"} /\ next.until = r.until
    BY <2>2, AgainFits
  <2>4. Fits(t, req[t])'
    BY <2>1, <2>3 DEF Fits, Typed, OwnStates, Counted, Waiting, Earlier, WorthARetry, Exhausted,
       Minimax, Retried, Fatal
  <2>5. Recorded(req[t])' /\ SleptThrough(t, req[t])'
    BY <1>3, <2>1, <2>3 DEF Recorded, SleptThrough
  <2> QED
    BY <2>4, <2>5 DEF Sound
<1>6. ASSUME NEW u \in Tasks \ {t} PROVE Sound(u, req[u])'
  <2> DEFINE s == req[u]
             n == [s EXCEPT !.passed = s.passed \/ (r.until > cooldown /\ s.pc \in {"cool", "send"})]
  <2>1. req'[u] = n
    BY <1>2 DEF PassedBy
  <2>2. Sound(u, s)
    BY DEF IInv
  <2>3. /\ Fields \subseteq DOMAIN n /\ n.pc = s.pc /\ n.attempt = s.attempt
        /\ n.rounds = s.rounds /\ n.sleep = s.sleep /\ n.until = s.until
        /\ n.sent = s.sent /\ n.last = s.last /\ n.result = s.result
    BY <2>2 DEF Sound, Fits, Typed, Fields
  <2>4. ~n.passed => ~s.passed /\ ~(r.until > cooldown /\ s.pc \in {"cool", "send"})
    BY <2>2 DEF Sound, Fits, Typed, Fields
  <2> HIDE DEF n
  <2>5. Fits(u, n)
    BY <2>2, <2>3 DEF Sound, Fits, Typed, OwnStates, Counted, Waiting, Earlier, WorthARetry,
       Exhausted
  <2>6. Fits(u, req[u])'
    BY <2>1, <2>5 DEF Fits, Typed, OwnStates, Counted, Waiting, Earlier, WorthARetry, Exhausted,
       Minimax, Retried, Fatal
  <2>7. s.pc # "set" => cooldown' >= s.until
    BY <1>1, <1>3, <2>2 DEF Sound, Fits, Typed, Recorded
  <2>8. Recorded(req[u])'
    BY <2>1, <2>3, <2>7 DEF Recorded
  <2>9. ASSUME Minimax(u), ~n.passed, s.pc \in {"cool", "send"}
        PROVE  cooldown' = cooldown /\ ~s.passed
    BY <1>3, <2>4, <2>9
  <2>10. SleptThrough(u, req[u])'
    BY <2>1, <2>2, <2>3, <2>9 DEF Sound, SleptThrough, Minimax
  <2> QED
    BY <2>6, <2>8, <2>10 DEF Sound
<1> QED
  BY <1>3, <1>4, <1>5, <1>6 DEF IInv

LEMMA TickKeeps == ASSUME IInv, tick PROVE IInv'
<1>1. /\ cooldown' = Down(cooldown) /\ cooldown' \in Nat /\ DOMAIN req' = Tasks
  <2>1. cooldown' = Down(cooldown) /\ DOMAIN req' = Tasks
    BY DEF tick
  <2>2. cooldown \in Nat
    BY DEF IInv
  <2> QED
    BY <2>1, <2>2 DEF Down
<1>2. ASSUME NEW t \in Tasks PROVE Sound(t, req[t])'
  <2> DEFINE r == req[t]
             n == [r EXCEPT !.sleep = Down(r.sleep), !.until = Down(r.until)]
  <2>1. req'[t] = n
    BY DEF tick
  <2>2. Sound(t, r) /\ cooldown \in Nat
    BY DEF IInv
  <2>3. /\ Fields \subseteq DOMAIN n /\ n.pc = r.pc /\ n.attempt = r.attempt
        /\ n.rounds = r.rounds /\ n.sleep = Down(r.sleep) /\ n.until = Down(r.until)
        /\ n.sent = r.sent /\ n.last = r.last /\ n.result = r.result /\ n.passed = r.passed
    BY <2>2 DEF Sound, Fits, Typed, Fields
  <2> HIDE DEF n
  <2>4. /\ n.until \in Nat
        /\ Minimax(t) => n.sleep \in Nat
        /\ r.pc # "set" => cooldown' >= n.until
    BY <1>1, <2>2, <2>3 DEF Sound, Fits, Typed, Recorded, Down
  <2>5. Fits(t, n)
    <3>1. Typed(t, n)
      BY <2>2, <2>3, <2>4 DEF Sound, Fits, Typed
    <3>2. Counted(t, n)
      BY <2>2, <2>3 DEF Sound, Fits, Counted, Waiting, Earlier
    <3> QED
      BY <2>2, <2>3, <3>1, <3>2 DEF Sound, Fits, OwnStates, WorthARetry, Exhausted
  <2>6. Fits(t, req[t])'
    BY <2>1, <2>5 DEF Fits, Typed, OwnStates, Counted, Waiting, Earlier, WorthARetry, Exhausted,
       Minimax, Retried, Fatal
  <2>7. Recorded(req[t])'
    BY <2>1, <2>3, <2>4 DEF Recorded
  <2>8. ASSUME Minimax(t), ~r.passed
        PROVE  /\ r.pc = "cool" => cooldown' <= n.sleep
               /\ r.pc = "send" => cooldown' = 0
    BY <1>1, <2>2, <2>3, <2>8 DEF Sound, Fits, Typed, SleptThrough, Down
  <2>9. SleptThrough(t, req[t])'
    BY <2>1, <2>3, <2>8 DEF SleptThrough, Minimax
  <2> QED
    BY <2>6, <2>7, <2>9 DEF Sound
<1> QED
  BY <1>1, <1>2 DEF IInv

LEMMA NextKeeps == IInv /\ [Next]_vars => IInv'
<1> SUFFICES ASSUME IInv, [Next]_vars PROVE IInv'
  OBVIOUS
<1>1. ASSUME NEW t \in Tasks, Proceed(t) PROVE IInv'
  BY <1>1, WakeKeeps, WaitCooldownKeeps, CooledKeeps, SendKeeps, SetCooldownKeeps, ReplyOkKeeps,
     ReplyFatalKeeps, ReplyRetriedKeeps, ReplyOverflowKeeps DEF Proceed
<1>2. ASSUME NEW t \in Tasks, NEW q \in Requests, call(t, q) PROVE IInv'
  BY <1>2, CallKeeps
<1>3. CASE tick
  BY <1>3, TickKeeps
<1>4. CASE UNCHANGED vars
  BY <1>4 DEF vars, IInv, Sound, Fits, Typed, OwnStates, Recorded, SleptThrough, Counted, Waiting,
     Earlier, WorthARetry, Exhausted, Minimax, Retried, Fatal
<1> QED
  BY <1>1, <1>2, <1>3, <1>4 DEF Next

LEMMA Inductive == Spec => []IInv
BY InitHolds, NextKeeps, PTL DEF Spec

\* A 429 holds back whoever looks after it was recorded, in whatever order
\* the deadlines arrive; what still goes out had looked before.
THEOREM CooldownIsHeld == Spec => []CooldownHeld
<1>1. IInv => CooldownHeld
  BY DEF IInv, Sound, Fits, Typed, Recorded, SleptThrough, CooldownHeld, At
<1> QED
  BY <1>1, Inductive, PTL

\* However a request is retried, throttled, shrunk and tried again, it is sent
\* no more often than its two budgets allow, and it gives up only for good.
THEOREM RetriesAreBounded == Spec => []RetriesBounded
<1>1. ASSUME IInv, NEW t \in Tasks PROVE req[t].sent <= Budget(t)
  <2> DEFINE r == req[t]
  <2>1. Typed(t, r) /\ r.sent <= Earlier(t, r) + r.attempt
    BY <1>1 DEF IInv, Sound, Fits, Counted
  <2>2. CASE Minimax(t)
    <3> DEFINE n == Len(Delays)
    <3>1. n \in Nat /\ r.attempt \in 1..n /\ r.rounds \in Nat /\ r.rounds <= MaxShrinks
      BY <2>1, <2>2, Delayed, HttpAssumption DEF Typed
    <3>2. /\ n * r.rounds \in Nat /\ n * MaxShrinks \in Nat /\ n * r.rounds <= n * MaxShrinks
          /\ n * (MaxShrinks + 1) = n * MaxShrinks + n
      BY <3>1, HttpAssumption, OneMoreRound, RoundsMonotonic
    <3>3. r.sent <= n * r.rounds + r.attempt /\ Budget(t) = n * (MaxShrinks + 1)
      BY <2>1, <2>2 DEF Earlier, Budget
    <3>4. r.sent \in Nat
      BY <2>1 DEF Typed
    <3> QED
      BY <3>1, <3>2, <3>3, <3>4
  <2>3. CASE ~Minimax(t)
    BY <2>1, <2>3, HttpAssumption DEF Earlier, Budget, Typed
  <2> QED
    BY <2>2, <2>3
<1>2. IInv => RetriesBounded
  BY <1>1 DEF IInv, Sound, Fits, Exhausted, RetriesBounded
<1> QED
  BY <1>2, Inductive, PTL

-----------------------------------------------------------------------------
(***************************************************************************)
(* What is returned of an answer.                                          *)
(***************************************************************************)
Texts == Seq(STRING)

\* Nothing around it that Trim would take away.
Trimmed(s) == s = <<>> \/ (s[1] # "nl" /\ s[Len(s)] # "nl")

LEMMA Cut ==
    ASSUME NEW s \in Texts, NEW m \in 1..(Len(s) + 1), NEW n \in 0..Len(s)
    PROVE  /\ SubSeq(s, m, n) \in Texts
           /\ m <= n => /\ Len(SubSeq(s, m, n)) = n - m + 1
                        /\ SubSeq(s, m, n)[1] = s[m]
                        /\ SubSeq(s, m, n)[n - m + 1] = s[n]
<1>1. Len(s) \in Nat
  BY LenProperties DEF Texts
<1>2. m \in Int /\ n \in Int /\ \A i \in m..n : s[i] \in STRING
  BY <1>1, ElementOfSeq DEF Texts
<1>3. /\ SubSeq(s, m, n) \in Seq(STRING)
      /\ Len(SubSeq(s, m, n)) = IF m <= n THEN n - m + 1 ELSE 0
      /\ \A i \in 1..(n - m + 1) : SubSeq(s, m, n)[i] = s[m + i - 1]
  BY <1>2, SubSeqProperties
<1>4. m <= n => /\ 1 \in 1..(n - m + 1) /\ m + 1 - 1 = m
                /\ n - m + 1 \in 1..(n - m + 1) /\ m + (n - m + 1) - 1 = n
  BY <1>2
<1> QED
  BY <1>3, <1>4 DEF Texts

LEMMA TrimTrims ==
    ASSUME NEW s \in Texts
    PROVE  Trim(s) \in Texts /\ Trimmed(Trim(s)) /\ (Trimmed(s) => Trim(s) = s)
<1> DEFINE N == Len(s)
           solid == {i \in DOMAIN s : s[i] # "nl"}
<1>1. N \in Nat /\ DOMAIN s = 1..N
  BY LenProperties DEF Texts
<1>2. CASE solid = {}
  <2>1. Trim(s) = <<>>
    BY <1>2 DEF Trim
  <2>2. ASSUME Trimmed(s), s # <<>> PROVE FALSE
    <3>1. N > 0
      BY <2>2, <1>1, EmptySeq DEF Texts
    <3> QED
      BY <1>1, <1>2, <2>2, <3>1 DEF Trimmed
  <2> QED
    BY <2>1, <2>2, EmptySeq DEF Trimmed, Texts
<1>3. CASE solid # {}
  <2>1. solid \in SUBSET Nat /\ solid \in SUBSET (0..N) /\ solid \subseteq 1..N
    BY <1>1
  <2>2. Min(solid) \in solid /\ \A i \in solid : Min(solid) <= i
    <3> HIDE DEF solid
    <3>1. \E n \in solid : \A m \in solid : n <= m
      BY <1>3, <2>1, LeastElement
    <3> QED
      BY <3>1 DEF Min
  <2>3. Max(solid) \in solid /\ \A i \in solid : Max(solid) >= i
    <3> HIDE DEF solid, N
    <3>1. \E n \in solid : \A m \in solid : n >= m
      BY <1>1, <1>3, <2>1, GreatestElement
    <3> QED
      BY <3>1 DEF Max
  <2> DEFINE m == Min(solid)
             n == Max(solid)
  <2>4. Trim(s) = SubSeq(s, m, n)
    BY <1>3 DEF Trim
  <2>5. m \in 1..N /\ n \in 1..N /\ m <= n /\ s[m] # "nl" /\ s[n] # "nl"
    BY <2>1, <2>2, <2>3
  <2>6. ASSUME Trimmed(s) PROVE m = 1 /\ n = N
    <3>1. s # <<>> /\ 1 \in 1..N /\ N \in 1..N
      <4>1. Len(<<>>) = 0
        BY EmptySeq
      <4> QED
        BY <1>1, <2>5, <4>1
    <3>2. 1 \in solid /\ N \in solid
      BY <1>1, <2>6, <3>1 DEF Trimmed
    <3>3. m <= 1 /\ n >= N
      BY <2>2, <2>3, <3>2
    <3>4. m \in 1..N /\ n \in 1..N /\ N \in Nat
      BY <1>1, <2>5
    <3> HIDE DEF m, n, N
    <3> QED
      BY <3>3, <3>4
  <2> HIDE DEF m, n
  <2>7. Trim(s) \in Texts /\ Len(Trim(s)) = n - m + 1 /\ Trim(s)[1] = s[m] /\ Trim(s)[n - m + 1] = s[n]
    BY <1>1, <2>4, <2>5, Cut
  <2>8. Trimmed(s) => Trim(s) = s
    BY <2>4, <2>6, SubSeqFull DEF Texts
  <2> QED
    BY <2>5, <2>7, <2>8 DEF Trimmed
<1> QED
  BY <1>2, <1>3

LEMMA FenceTrimmed ==
    ASSUME NEW s \in Texts
    PROVE  /\ strip_markdown_fence(s) \in Texts /\ Trimmed(strip_markdown_fence(s))
           /\ strip_markdown_fence(Trim(s)) = strip_markdown_fence(s)
<1> DEFINE t == Trim(s)
           breaks == {i \in DOMAIN t : t[i] = "nl"}
           body == Trim(SubSeq(t, Min(breaks) + 1, Len(t)))
<1>1. t \in Texts /\ Trimmed(t) /\ Trim(t) = t
  BY TrimTrims
<1>2. strip_markdown_fence(Trim(s)) = strip_markdown_fence(s)
  BY <1>1 DEF strip_markdown_fence
<1>3. ASSUME breaks # {}
      PROVE  \/ strip_markdown_fence(s) = t
             \/ \E b \in Texts : strip_markdown_fence(s) = Trim(b)
  <2>1. Len(t) \in Nat /\ DOMAIN t = 1..Len(t)
    BY <1>1, LenProperties DEF Texts
  <2>2. Min(breaks) \in 1..Len(t)
    <3>1. breaks \in SUBSET Nat /\ breaks \subseteq 1..Len(t)
      BY <2>1
    <3> HIDE DEF breaks
    <3>2. \E n \in breaks : \A m \in breaks : n <= m
      BY <1>3, <3>1, LeastElement
    <3>3. Min(breaks) \in breaks
      BY <3>2 DEF Min
    <3> QED
      BY <3>1, <3>3
  <2>3. SubSeq(t, Min(breaks) + 1, Len(t)) \in Texts
    <3>1. Min(breaks) + 1 \in 1..(Len(t) + 1) /\ Len(t) \in 0..Len(t)
      BY <2>1, <2>2
    <3> HIDE DEF t, breaks
    <3> QED
      BY <1>1, <3>1, Cut
  <2>4. body \in Texts
    BY <2>3, TrimTrims
  <2>5. body # <<>> => Front(body) \in Texts
    <3> HIDE DEF body
    <3>1. ASSUME body # <<>> PROVE 1 \in 1..(Len(body) + 1) /\ Len(body) - 1 \in 0..Len(body)
      BY <2>4, <3>1, EmptySeq DEF Texts
    <3> QED
      BY <2>4, <3>1, Cut DEF Front
  <2>6. \/ strip_markdown_fence(s) = t
        \/ strip_markdown_fence(s) = Trim(IF body # <<>> /\ Last(body) = "fence" THEN Front(body) ELSE body)
    BY DEF strip_markdown_fence
  <2> HIDE DEF body
  <2> QED
    BY <2>4, <2>5, <2>6
<1>4. breaks = {} => strip_markdown_fence(s) = t
  BY DEF strip_markdown_fence
<1>5. strip_markdown_fence(s) \in Texts /\ Trimmed(strip_markdown_fence(s))
  <2> HIDE DEF t, breaks
  <2> QED
    BY <1>1, <1>3, <1>4, TrimTrims
<1> QED
  BY <1>2, <1>5

-----------------------------------------------------------------------------
\* A block that is open after n tokens.
Open(s, n) == n > 0 /\ Hidden(s, n) /\ s[n] # "</think>"

\* The reasoning goes on unless it is closed, and starts where it is opened.
LEMMA HiddenNext ==
    ASSUME NEW s, NEW n \in Nat
    PROVE  Hidden(s, n + 1) <=> Open(s, n) \/ s[n + 1] = "<think>"
<1>1. ASSUME s[n + 1] = "<think>" PROVE Hidden(s, n + 1)
  BY <1>1 DEF Hidden
<1>2. ASSUME Open(s, n) PROVE Hidden(s, n + 1)
  <2>1. PICK j \in 1..n : s[j] = "<think>" /\ \A k \in j..(n - 1) : s[k] # "</think>"
    BY <1>2 DEF Open, Hidden
  <2>2. \A k \in j..((n + 1) - 1) : k = n \/ k \in j..(n - 1)
    OBVIOUS
  <2> QED
    BY <1>2, <2>1, <2>2 DEF Open, Hidden
<1>3. ASSUME Hidden(s, n + 1), s[n + 1] # "<think>" PROVE Open(s, n)
  <2>1. PICK j \in 1..(n + 1) : s[j] = "<think>" /\ \A k \in j..((n + 1) - 1) : s[k] # "</think>"
    BY <1>3 DEF Hidden
  <2>2. j \in 1..n /\ n \in j..((n + 1) - 1) /\ \A k \in j..(n - 1) : k \in j..((n + 1) - 1)
    BY <1>3, <2>1
  <2> QED
    BY <2>1, <2>2 DEF Open, Hidden
<1> QED
  BY <1>1, <1>2, <1>3

\* The tokens that Shown keeps are texts, and follow its equations.
ShownAt(s, shown) ==
    /\ shown[0] = <<>>
    /\ \A n \in 1..Len(s) :
          shown[n] = IF Hidden(s, n) THEN shown[n - 1] ELSE Append(shown[n - 1], s[n])

LEMMA ShownFollows ==
    ASSUME NEW s \in Texts
    PROVE  \E shown \in [0..Len(s) -> Texts] : ShownAt(s, shown) /\ Shown(s) = shown[Len(s)]
<1> DEFINE N == Len(s)
           step == [n \in 1..N |-> [t \in Texts |-> IF Hidden(s, n) THEN t ELSE Append(t, s[n])]]
           F(shown) == [n \in 0..N |->
                          IF n = 0 THEN <<>>
                          ELSE IF Hidden(s, n) THEN shown[n - 1] ELSE Append(shown[n - 1], s[n])]
           f == CHOOSE shown : shown = F(shown)
<1>1. N \in Nat /\ (\A n \in 1..N : s[n] \in STRING) /\ <<>> \in Texts
  BY LenProperties, ElementOfSeq, EmptySeq DEF Texts
<1>2. ASSUME NEW n \in 1..N, NEW t \in Texts
      PROVE  /\ step[n][t] = IF Hidden(s, n) THEN t ELSE Append(t, s[n])
             /\ step[n][t] \in Texts
  <2>1. Append(t, s[n]) \in Texts
    BY <1>1, AppendProperties DEF Texts
  <2> QED
    BY <2>1
<1>3. Shown(s) = f[N]
  BY DEF Shown
<1> HIDE DEF N, step
<1>4. PICK g \in Recursive(Texts, <<>>, N, step) : TRUE
  BY <1>1, <1>2, RecursionExists
<1>5. \A n \in 1..N : n - 1 \in 0..N /\ n \in 0..N /\ n # 0
  BY <1>1
<1>51. \A n \in 0..N : n # 0 => n \in 1..N
  BY <1>1
<1>6. g = F(g)
  <2>1. ASSUME NEW n \in 1..N
        PROVE  g[n] = IF Hidden(s, n) THEN g[n - 1] ELSE Append(g[n - 1], s[n])
    BY <1>2, <1>4, <1>5 DEF Recursive
  <2>2. \A n \in 0..N : g[n] = IF n = 0 THEN <<>>
                                ELSE IF Hidden(s, n) THEN g[n - 1] ELSE Append(g[n - 1], s[n])
    BY <1>4, <1>51, <2>1 DEF Recursive
  <2> QED
    BY <1>4, <2>2 DEF Recursive
<1>7. f = F(f)
  <2> HIDE DEF F
  <2> QED
    BY <1>6
<1> HIDE DEF f
<1>8. /\ f = [n \in 0..N |-> f[n]] /\ f[0] = <<>>
      /\ \A n \in 1..N : f[n] = IF Hidden(s, n) THEN f[n - 1] ELSE Append(f[n - 1], s[n])
  <2>1. 0 \in 0..N
    BY <1>1
  <2>2. f = [n \in 0..N |-> f[n]]
    BY <1>7
  <2>3. \A n \in 0..N : f[n] = IF n = 0 THEN <<>>
                                ELSE IF Hidden(s, n) THEN f[n - 1] ELSE Append(f[n - 1], s[n])
    BY <1>7
  <2> QED
    BY <1>5, <2>1, <2>2, <2>3
<1>9. \A n \in 1..N : f[n - 1] \in Texts => f[n] = step[n][f[n - 1]]
  BY <1>2, <1>8
<1>10. f \in Recursive(Texts, <<>>, N, step)
  BY <1>1, <1>2, <1>8, <1>9, RecursionTyped
<1>11. f \in [0..N -> Texts]
  BY <1>10 DEF Recursive
<1>12. ShownAt(s, f)
  BY <1>8 DEF ShownAt, N
<1> QED
  BY <1>3, <1>11, <1>12 DEF N

LEMMA ThinkCases ==
    ASSUME NEW out, NEW token
    PROVE  /\ Think([inside |-> TRUE, out |-> out], token) = [inside |-> token # "</think>", out |-> out]
           /\ Think([inside |-> FALSE, out |-> out], token)
                = IF token = "<think>" THEN [inside |-> TRUE, out |-> out]
                  ELSE [inside |-> FALSE, out |-> Append(out, token)]
<1> DEFINE in == [inside |-> TRUE, out |-> out]
           no == [inside |-> FALSE, out |-> out]
<1>1. in.inside = TRUE /\ no.inside = FALSE /\ no.out = out
  OBVIOUS
<1>2. Think(in, token) = [in EXCEPT !.inside = token # "</think>"]
  BY <1>1 DEF Think
<1>3. token = "<think>" => Think(no, token) = [no EXCEPT !.inside = TRUE]
  BY <1>1 DEF Think
<1>4. token # "<think>" => Think(no, token) = [no EXCEPT !.out = Append(out, token)]
  BY <1>1 DEF Think
<1> QED
  BY <1>2, <1>3, <1>4

LEMMA ThinkFollows ==
    ASSUME NEW s, NEW n \in Nat, NEW out, NEW more,
           more = IF Hidden(s, n + 1) THEN out ELSE Append(out, s[n + 1])
    PROVE  Think([inside |-> Open(s, n), out |-> out], s[n + 1])
             = [inside |-> Open(s, n + 1), out |-> more]
<1>0. n + 1 > 0
  OBVIOUS
<1>1. CASE Open(s, n)
  <2>1. Hidden(s, n + 1) /\ Open(s, n) = TRUE /\ Open(s, n + 1) = (s[n + 1] # "</think>")
    BY <1>0, <1>1, HiddenNext DEF Open
  <2> QED
    BY <2>1, ThinkCases
<1>2. CASE ~Open(s, n) /\ s[n + 1] = "<think>"
  <2>1. Hidden(s, n + 1) /\ Open(s, n) = FALSE /\ Open(s, n + 1) = TRUE
    BY <1>0, <1>2, HiddenNext DEF Open
  <2> QED
    BY <1>2, <2>1, ThinkCases
<1>3. CASE ~Open(s, n) /\ s[n + 1] # "<think>"
  <2>1. ~Hidden(s, n + 1) /\ Open(s, n) = FALSE /\ Open(s, n + 1) = FALSE
    BY <1>3, HiddenNext DEF Open
  <2>2. Think([inside |-> FALSE, out |-> out], s[n + 1]) = [inside |-> FALSE, out |-> Append(out, s[n + 1])]
    BY <1>3, ThinkCases
  <2> QED
    BY <2>1, <2>2
<1> QED
  BY <1>1, <1>2, <1>3

\* The scan of strip_think, that forgets what it has passed, shows what the
\* declarative reading shows.
LEMMA StripShows ==
    ASSUME NEW s \in Texts
    PROVE  strip_think(s) = Trim(Shown(s))
<1> DEFINE N == Len(s)
<1>1. N \in Nat
  BY LenProperties DEF Texts
<1>2. PICK shown \in [0..N -> Texts] : ShownAt(s, shown) /\ Shown(s) = shown[N]
  BY ShownFollows
<1> DEFINE first == [inside |-> FALSE, out |-> <<>>]
           F(scan) == [n \in 0..N |-> IF n = 0 THEN first ELSE Think(scan[n - 1], s[n])]
           g == [n \in 0..N |-> [inside |-> Open(s, n), out |-> shown[n]]]
           f == CHOOSE scan : scan = F(scan)
<1>3. strip_think(s) = Trim(f[N].out)
  BY DEF strip_think
<1>4. g[0] = first
  <2>1. Open(s, 0) = FALSE /\ 0 \in 0..N /\ shown[0] = <<>>
    BY <1>1, <1>2 DEF Open, ShownAt
  <2> QED
    BY <2>1
<1>5. ASSUME NEW n \in Nat, n + 1 <= N PROVE g[n + 1] = Think(g[n], s[n + 1])
  <2>1. n + 1 \in 1..N /\ (n + 1) - 1 = n /\ n \in 0..N /\ n + 1 \in 0..N
    BY <1>1, <1>5
  <2>2. shown[n + 1] = IF Hidden(s, n + 1) THEN shown[n] ELSE Append(shown[n], s[n + 1])
    BY <1>2, <2>1 DEF ShownAt
  <2>3. Think([inside |-> Open(s, n), out |-> shown[n]], s[n + 1])
          = [inside |-> Open(s, n + 1), out |-> shown[n + 1]]
    BY <2>2, ThinkFollows
  <2> QED
    BY <2>1, <2>3
<1>6. DOMAIN g = 0..N /\ g[N].out = shown[N] /\ g = [n \in 0..N |-> g[n]]
  BY <1>1
<1> HIDE DEF N, first, g
<1>7. \A n \in 0..N : n # 0 => n - 1 \in Nat /\ (n - 1) + 1 = n /\ n <= N
  BY <1>1
<1>8. g = F(g)
  <2>1. \A n \in 0..N : g[n] = IF n = 0 THEN first ELSE Think(g[n - 1], s[n])
    BY <1>4, <1>5, <1>7
  <2> QED
    BY <1>6, <2>1
<1>9. f = F(f)
  <2> HIDE DEF F
  <2> QED
    BY <1>8
<1> HIDE DEF f
<1> DEFINE S == {n \in Nat : n <= N => f[n] = g[n]}
<1>10. 0 \in S
  <2>1. 0 \in 0..N
    BY <1>1
  <2>2. f[0] = first
    BY <1>9, <2>1
  <2> QED
    BY <1>4, <2>2
<1>11. ASSUME NEW n \in Nat, n \in S PROVE n + 1 \in S
  <2> SUFFICES ASSUME n + 1 <= N PROVE f[n + 1] = g[n + 1]
    OBVIOUS
  <2>1. n + 1 \in 0..N /\ n + 1 # 0 /\ (n + 1) - 1 = n /\ f[n] = g[n]
    BY <1>1, <1>11
  <2>2. f[n + 1] = Think(f[n], s[n + 1])
    BY <1>9, <2>1
  <2> QED
    BY <1>5, <2>1, <2>2
<1> HIDE DEF S
<1>12. \A n \in Nat : n \in S
  BY <1>10, <1>11, Induction
<1>13. f[N] = g[N]
  BY <1>1, <1>12 DEF S
<1> QED
  BY <1>2, <1>3, <1>6, <1>13

\* Taking the reasoning away token by token, then the fence, leaves what is
\* visible, and that starts with what judge looks at.
LEMMA CleanedIsVisible ==
    ASSUME NEW raw \in Contents
    PROVE  /\ Cleaned[raw] = VisibleIn[raw]
           /\ Verdict(Cleaned[raw]) = "yes" => VisibleIn[raw] # <<>> /\ VisibleIn[raw][1] = "YES"
<1>1. raw \in Texts
  BY HttpAssumption DEF Texts
<1>2. Shown(raw) \in Texts
  <2>1. Len(raw) \in Nat
    BY <1>1, LenProperties DEF Texts
  <2> QED
    BY <1>1, <2>1, ShownFollows
<1>3. Cleaned[raw] = strip_markdown_fence(strip_think(raw)) /\ VisibleIn[raw] = strip_markdown_fence(Shown(raw))
  BY DEF Cleaned, VisibleIn
<1>4. Cleaned[raw] = VisibleIn[raw]
  BY <1>1, <1>2, <1>3, StripShows, FenceTrimmed
<1>5. VisibleIn[raw] \in Texts /\ Trim(VisibleIn[raw]) = VisibleIn[raw]
  BY <1>2, <1>3, FenceTrimmed, TrimTrims
<1>6. VisibleIn[raw] # <<>> => Head(VisibleIn[raw]) = VisibleIn[raw][1]
  OBVIOUS
<1> QED
  BY <1>4, <1>5, <1>6 DEF Verdict

-----------------------------------------------------------------------------
(***************************************************************************)
(* Types, and what was returned.                                           *)
(***************************************************************************)
Pcs == {"idle", "sleep", "check", "cool", "send", "flight", "set", "done"}

\* A request that has succeeded kept what the server sent last.
Answered(t, r) ==
    r.pc = "done" /\ r.result # "err" /\ Minimax(t) =>
        /\ r.last = "ok" /\ r.raw \in Contents /\ r.content = Cleaned[r.raw]
        /\ r.result = "yes" => Verdict(r.content) = "yes"

Kept(t, r) ==
    /\ r.pc \in Pcs /\ r.op \in Ops /\ r.sleep \in Nat /\ r.until <= Cooldown
    /\ Answered(t, r)

\* No deadline is farther than the one a 429 sets.
TypeInv == cooldown <= Cooldown /\ \A t \in Tasks : Kept(t, req[t])

LEMMA InitTyped == Init => TypeInv
<1>1. Cooldown \in Nat
  BY HttpAssumption
<1>2. ASSUME NEW t \in Tasks PROVE Kept(t, Idle)
  BY <1>1 DEF Kept, Answered, Idle, Pcs, Ops
<1> QED
  BY <1>1, <1>2 DEF Init, TypeInv

\* Anything but success keeps nothing.
LEMMA KeptIf ==
    ASSUME NEW t \in Tasks, NEW r, Kept(t, r), NEW n,
           n.pc \in Pcs, n.op = r.op, n.sleep \in Nat, n.until = r.until \/ n.until = Cooldown,
           n.pc # "done" \/ n.result = "err"
    PROVE  Kept(t, n)
BY HttpAssumption DEF Kept, Answered

LEMMA GoTyped ==
    ASSUME IInv, TypeInv, NEW t \in Tasks, NEW r, Go(t, r), Kept(t, r)
    PROVE  TypeInv'
<1>1. cooldown' = cooldown
  BY DEF Go
<1>2. ASSUME NEW u \in Tasks PROVE Kept(u, req[u])'
  <2>1. req'[u] = IF u = t THEN r ELSE req[u]
    BY DEF IInv, Go
  <2>2. Kept(u, req'[u])
    BY <2>1 DEF TypeInv
  <2> QED
    BY <1>1, <2>2 DEF Kept, Answered, Minimax
<1> QED
  BY <1>1, <1>2 DEF TypeInv

LEMMA Powers == \A k \in 0..10 : 2 ^ k \in Nat
<1> SUFFICES ASSUME NEW k \in 0..10 PROVE 2 ^ k \in Nat
  OBVIOUS
<1>0. k \in {0, 1, 2, 3, 4, 5, 6, 7, 8, 9, 10}
  OBVIOUS
<1>1. CASE k = 0
  BY <1>1
<1>2. CASE k = 1
  BY <1>2
<1>3. CASE k = 2
  BY <1>3
<1>4. CASE k = 3
  BY <1>4
<1>5. CASE k = 4
  BY <1>5
<1>6. CASE k = 5
  BY <1>6
<1>7. CASE k = 6
  BY <1>7
<1>8. CASE k = 7
  BY <1>8
<1>9. CASE k = 8
  BY <1>9
<1>10. CASE k = 9
  BY <1>10
<1>11. CASE k = 10
  BY <1>11
<1> QED
  BY <1>0, <1>1, <1>2, <1>3, <1>4, <1>5, <1>6, <1>7, <1>8, <1>9, <1>10, <1>11

LEMMA BackoffIsNatural ==
    ASSUME NEW attempt \in 1..MaxAttempts
    PROVE  backoff_delay(attempt) \in Nat
<1>1. attempt - 1 \in Nat /\ BaseDelay \in Nat /\ MaxDelay \in Nat
  BY HttpAssumption
<1>2. Smaller(attempt - 1, 10) \in 0..10
  BY <1>1 DEF Smaller
<1>3. 2 ^ Smaller(attempt - 1, 10) \in Nat
  BY <1>2, Powers
<1>4. BaseDelay * 2 ^ Smaller(attempt - 1, 10) \in Nat
  BY <1>1, <1>3, OneMoreRound
<1> QED
  BY <1>1, <1>4 DEF backoff_delay, Smaller

\* A request that sleeps and is tried again, or fails for good.
LEMMA AgainTyped ==
    ASSUME NEW t \in Tasks, NEW r, Typed(t, r), Kept(t, r), NEW next \in Again(t, r)
    PROVE  Kept(t, next)
<1>1. CASE ~Minimax(t)
  <2>1. next = [r EXCEPT !.pc = "sleep", !.sleep = backoff_delay(r.attempt)]
    BY <1>1 DEF Again
  <2>2. backoff_delay(r.attempt) \in Nat
    BY <1>1, BackoffIsNatural DEF Typed
  <2>3. /\ next.pc = "sleep" /\ next.sleep \in Nat /\ next.op = r.op /\ next.until = r.until
    BY <2>1, <2>2 DEF Typed, Fields
  <2> QED
    BY <2>3, KeptIf DEF Pcs
<1>2. CASE Minimax(t) /\ r.attempt = Len(Delays)
  <2>1. next = [r EXCEPT !.pc = "done", !.result = "err", !.content = <<>>, !.messages = <<>>]
    BY <1>2 DEF Again, Failed, Returned
  <2>2. /\ next.pc = "done" /\ next.result = "err" /\ next.sleep = r.sleep /\ next.op = r.op
        /\ next.until = r.until
    BY <2>1 DEF Typed, Fields
  <2> QED
    BY <2>2, KeptIf DEF Pcs, Kept
<1>3. CASE Minimax(t) /\ r.attempt # Len(Delays)
  <2>1. PICK d \in Delays[r.attempt + 1] : next = [r EXCEPT !.pc = "sleep", !.attempt = r.attempt + 1, !.sleep = d]
    BY <1>3 DEF Again
  <2>2. d \in Nat
    BY <1>3, Delayed DEF Typed
  <2>3. /\ next.pc = "sleep" /\ next.sleep \in Nat /\ next.op = r.op /\ next.until = r.until
    BY <2>1, <2>2 DEF Typed, Fields
  <2> QED
    BY <2>3, KeptIf DEF Pcs
<1> QED
  BY <1>1, <1>2, <1>3

\* A task that goes on by itself, without an answer.
LEMMA GoOnTyped ==
    ASSUME IInv, TypeInv, NEW t \in Tasks, NEW n, Go(t, n),
           n.pc \in Pcs, n.op = req[t].op, n.sleep \in Nat,
           n.until = req[t].until \/ n.until = Cooldown,
           n.pc # "done" \/ n.result = "err"
    PROVE  TypeInv'
<1>1. Kept(t, n)
  BY KeptIf DEF TypeInv
<1> QED
  BY <1>1, GoTyped

LEMMA RepliedKept ==
    ASSUME IInv, TypeInv, NEW t \in Tasks, At(t, "flight"), NEW reply
    PROVE  LET r == Replied(t, reply) IN
           /\ Kept(t, r) /\ Typed(t, r) /\ r.op = req[t].op /\ r.sleep = req[t].sleep
           /\ r.until = req[t].until /\ r.last = reply
<1> DEFINE r == Replied(t, reply)
<1>1. Typed(t, r)
  BY RepliedSound
<1>2. Fields \subseteq DOMAIN req[t] /\ Kept(t, req[t]) /\ req[t].pc = "flight"
  BY DEF IInv, TypeInv, Sound, Fits, Typed, At
<1>3. /\ r.pc = "flight" /\ r.op = req[t].op /\ r.sleep = req[t].sleep
      /\ r.until = req[t].until /\ r.last = reply
  BY <1>2 DEF Replied, Fields
<1> HIDE DEF r
<1>4. Kept(t, r)
  BY <1>2, <1>3, KeptIf DEF Kept, Pcs
<1> QED
  BY <1>1, <1>3, <1>4 DEF r

LEMMA OkTyped ==
    ASSUME IInv, TypeInv, NEW t \in Tasks, NEW raw \in Contents, reply_ok(t, raw)
    PROVE  TypeInv'
<1> DEFINE r == Replied(t, "ok")
           content == IF Minimax(t) THEN Cleaned[raw] ELSE raw
           result == IF req[t].op = "judge" THEN Verdict(content) ELSE "ok"
           next == [Returned(r, result, content) EXCEPT !.raw = raw]
<1>1. At(t, "flight") /\ Go(t, next)
  BY DEF reply_ok
<1>2. Kept(t, r) /\ Typed(t, r) /\ r.last = "ok"
  BY <1>1, RepliedKept
<1>3. result = "yes" => Verdict(content) = "yes"
  OBVIOUS
<1>4. Minimax(t) => content = Cleaned[raw]
  OBVIOUS
<1> HIDE DEF r, result, content
<1>5. /\ next.pc = "done" /\ next.result = result /\ next.content = content /\ next.raw = raw
      /\ next.op = r.op /\ next.sleep = r.sleep /\ next.until = r.until /\ next.last = "ok"
  BY <1>2 DEF Returned, Typed, Fields
<1> HIDE DEF next
<1>6. Kept(t, next)
  BY <1>2, <1>3, <1>4, <1>5 DEF Kept, Answered, Pcs
<1> QED
  BY <1>1, <1>6, GoTyped

LEMMA FailedTyped ==
    ASSUME IInv, TypeInv, NEW t \in Tasks, NEW r, Typed(t, r), r.op = req[t].op, r.sleep \in Nat,
           r.until = req[t].until, Go(t, Failed(r))
    PROVE  TypeInv'
<1> DEFINE n == Failed(r)
<1>1. /\ n.pc = "done" /\ n.result = "err" /\ n.op = r.op /\ n.sleep = r.sleep /\ n.until = r.until
  BY DEF Failed, Returned, Typed, Fields
<1> HIDE DEF n
<1>2. n.pc \in Pcs
  BY <1>1 DEF Pcs
<1> QED
  BY <1>1, <1>2, GoOnTyped DEF n

LEMMA ReplyTyped ==
    ASSUME IInv, TypeInv, NEW t \in Tasks, NEW reply,
           reply_fatal(t, reply) \/ reply_retried(t, reply)
    PROVE  TypeInv'
<1> DEFINE r == Replied(t, reply)
<1>1. At(t, "flight")
  BY DEF reply_fatal, reply_retried
<1>2. /\ Kept(t, r) /\ Typed(t, r) /\ r.op = req[t].op /\ r.sleep \in Nat /\ r.until = req[t].until
  BY <1>1, RepliedKept DEF Kept
<1>3. CASE reply_fatal(t, reply)
  BY <1>2, <1>3, FailedTyped DEF reply_fatal
<1>4. CASE reply_retried(t, reply) /\ Throttled(t, reply)
  <2> DEFINE n == [r EXCEPT !.pc = "set", !.until = Cooldown]
  <2>1. Go(t, n)
    BY <1>4 DEF reply_retried
  <2> HIDE DEF r
  <2>2. n.pc = "set" /\ n.op = r.op /\ n.sleep = r.sleep /\ n.until = Cooldown
    BY <1>2 DEF Typed, Fields
  <2> HIDE DEF n
  <2>3. n.pc \in Pcs
    BY <2>2 DEF Pcs
  <2> QED
    BY <1>2, <2>1, <2>2, <2>3, GoOnTyped
<1>5. CASE reply_retried(t, reply) /\ ~Throttled(t, reply)
  <2>1. PICK next \in Again(t, r) : Go(t, next)
    BY <1>5 DEF reply_retried
  <2> QED
    BY <1>2, <2>1, AgainTyped, GoTyped
<1> QED
  BY <1>3, <1>4, <1>5

LEMMA OverflowTyped ==
    ASSUME IInv, TypeInv, NEW t \in Tasks, NEW n, reply_overflow(t, n)
    PROVE  TypeInv'
<1> DEFINE r == Replied(t, "overflow")
           next == [r EXCEPT !.pc = "check", !.messages = Shrunk(r.messages, n), !.attempt = 1,
                             !.rounds = r.rounds + 1]
<1>1. At(t, "flight")
  BY DEF reply_overflow
<1>2. /\ Typed(t, r) /\ r.op = req[t].op /\ r.sleep \in Nat /\ r.until = req[t].until
  BY <1>1, RepliedKept DEF Kept
<1>3. Go(t, Failed(r)) \/ Go(t, next)
  BY DEF reply_overflow
<1>4. CASE Go(t, Failed(r))
  BY <1>2, <1>4, FailedTyped
<1>5. CASE Go(t, next)
  <2> HIDE DEF r
  <2>1. next.pc = "check" /\ next.op = r.op /\ next.sleep = r.sleep /\ next.until = r.until
    BY <1>2 DEF Typed, Fields
  <2> HIDE DEF next
  <2>2. next.pc \in Pcs
    BY <2>1 DEF Pcs
  <2> QED
    BY <1>2, <1>5, <2>1, <2>2, GoOnTyped
<1> QED
  BY <1>3, <1>4, <1>5

LEMMA CallTyped ==
    ASSUME IInv, TypeInv, NEW t \in Tasks, NEW q \in Requests, call(t, q)
    PROVE  TypeInv'
<1> DEFINE r == [Idle EXCEPT !.pc = IF Minimax(t) THEN "check" ELSE "send",
                             !.op = q.op, !.messages = wire(t, q.messages)]
<1>1. req' = [req EXCEPT ![t] = r] /\ cooldown' = cooldown
  BY DEF call
<1>2. r.pc \in {"check", "send"} /\ r.op = q.op /\ r.sleep = 0 /\ r.until = 0
  BY DEF Idle
<1> HIDE DEF r
<1>3. q.op \in Ops /\ Cooldown \in Nat
  BY HttpAssumption
<1>4. Kept(t, r)
  BY <1>2, <1>3 DEF Kept, Answered, Pcs
<1>5. ASSUME NEW u \in Tasks PROVE Kept(u, req[u])'
  <2>1. req'[u] = IF u = t THEN r ELSE req[u]
    BY <1>1 DEF IInv
  <2>2. Kept(u, req'[u])
    BY <1>4, <2>1 DEF TypeInv
  <2> QED
    BY <2>2 DEF Kept, Answered, Minimax
<1> QED
  BY <1>1, <1>5 DEF TypeInv

LEMMA AloneTyped ==
    ASSUME IInv, TypeInv, NEW t \in Tasks, wake(t) \/ wait_cooldown(t) \/ cooled(t) \/ send(t)
    PROVE  TypeInv'
<1> DEFINE r == req[t]
<1>1. Typed(t, r) /\ Kept(t, r) /\ r.sleep \in Nat /\ cooldown \in Nat
  BY DEF IInv, TypeInv, Sound, Fits, Kept
<1>2. ASSUME NEW n, Go(t, n), n.pc \in {"check", "cool", "send", "flight"}, n.op = r.op,
             n.sleep \in Nat, n.until = r.until
      PROVE  TypeInv'
  BY <1>2, GoOnTyped DEF Pcs
<1>3. CASE wake(t) /\ Minimax(t)
  <2>1. Go(t, [r EXCEPT !.pc = "check"])
    BY <1>3 DEF wake
  <2> HIDE DEF r
  <2>2. \A n : n = [r EXCEPT !.pc = "check"] =>
             n.pc = "check" /\ n.op = r.op /\ n.sleep = r.sleep /\ n.until = r.until
    BY <1>1 DEF Typed, Fields
  <2> QED
    BY <1>1, <1>2, <2>1, <2>2
<1>4. CASE wake(t) /\ ~Minimax(t) /\ r.attempt = MaxAttempts
  <2>1. Go(t, Failed(r))
    BY <1>4 DEF wake
  <2> QED
    BY <1>1, <2>1, FailedTyped
<1>5. CASE wake(t) /\ ~Minimax(t) /\ r.attempt # MaxAttempts
  <2>1. Go(t, [r EXCEPT !.pc = "send", !.attempt = r.attempt + 1])
    BY <1>5 DEF wake
  <2> HIDE DEF r
  <2>2. \A n : n = [r EXCEPT !.pc = "send", !.attempt = r.attempt + 1] =>
             n.pc = "send" /\ n.op = r.op /\ n.sleep = r.sleep /\ n.until = r.until
    BY <1>1 DEF Typed, Fields
  <2> QED
    BY <1>1, <1>2, <2>1, <2>2
<1>6. CASE wait_cooldown(t)
  <2> DEFINE pc == IF cooldown > 0 THEN "cool" ELSE "send"
  <2>1. Go(t, [r EXCEPT !.pc = pc, !.sleep = cooldown, !.passed = FALSE])
    BY <1>6 DEF wait_cooldown
  <2>2. pc \in {"cool", "send"}
    OBVIOUS
  <2> HIDE DEF r, pc
  <2>3. \A n : n = [r EXCEPT !.pc = pc, !.sleep = cooldown, !.passed = FALSE] =>
             n.pc = pc /\ n.op = r.op /\ n.sleep = cooldown /\ n.until = r.until
    BY <1>1 DEF Typed, Fields
  <2> QED
    BY <1>1, <1>2, <2>1, <2>2, <2>3
<1>7. CASE cooled(t)
  <2>1. Go(t, [r EXCEPT !.pc = "send"])
    BY <1>7 DEF cooled
  <2> HIDE DEF r
  <2>2. \A n : n = [r EXCEPT !.pc = "send"] =>
             n.pc = "send" /\ n.op = r.op /\ n.sleep = r.sleep /\ n.until = r.until
    BY <1>1 DEF Typed, Fields
  <2> QED
    BY <1>1, <1>2, <2>1, <2>2
<1>8. CASE send(t)
  <2>1. Go(t, [r EXCEPT !.pc = "flight", !.sent = Smaller(r.sent, Budget(t)) + 1])
    BY <1>8 DEF send
  <2> HIDE DEF r
  <2>2. \A n : n = [r EXCEPT !.pc = "flight", !.sent = Smaller(r.sent, Budget(t)) + 1] =>
             n.pc = "flight" /\ n.op = r.op /\ n.sleep = r.sleep /\ n.until = r.until
    BY <1>1 DEF Typed, Fields
  <2> QED
    BY <1>1, <1>2, <2>1, <2>2
<1> QED
  BY <1>3, <1>4, <1>5, <1>6, <1>7, <1>8

LEMMA SetTyped ==
    ASSUME IInv, TypeInv, NEW t \in Tasks, set_cooldown(t)
    PROVE  TypeInv'
<1>1. PICK next \in Again(t, req[t]) : req' = PassedBy(t, next)
  BY DEF set_cooldown
<1>2. /\ Typed(t, req[t]) /\ Kept(t, req[t]) /\ req[t].until \in Nat /\ req[t].until <= Cooldown
      /\ cooldown \in Nat /\ cooldown <= Cooldown /\ Cooldown \in Nat
  BY HttpAssumption DEF IInv, TypeInv, Sound, Fits, Typed, Kept
<1>3. cooldown' <= Cooldown
  BY <1>2 DEF set_cooldown, Larger
<1>4. Kept(t, next)
  BY <1>1, <1>2, AgainTyped
<1>5. ASSUME NEW u \in Tasks \ {t} PROVE Kept(u, req'[u])
  <2> DEFINE s == req[u]
             passed == s.passed \/ (req[t].until > cooldown /\ s.pc \in {"cool", "send"})
             n == [s EXCEPT !.passed = passed]
  <2>1. req'[u] = n
    BY <1>1 DEF PassedBy
  <2>2. Fields \subseteq DOMAIN s /\ Kept(u, s)
    BY DEF IInv, TypeInv, Sound, Fits, Typed
  <2> HIDE DEF s, passed
  <2>3. /\ n.pc = s.pc /\ n.op = s.op /\ n.sleep = s.sleep /\ n.until = s.until /\ n.last = s.last
        /\ n.result = s.result /\ n.content = s.content /\ n.raw = s.raw
    BY <2>2 DEF Fields
  <2> HIDE DEF n
  <2>4. Kept(u, n)
    BY <2>2, <2>3 DEF Kept, Answered
  <2> QED
    BY <2>1, <2>4
<1>6. req'[t] = next
  BY <1>1 DEF PassedBy
<1>7. \A u \in Tasks : Kept(u, req[u])'
  BY <1>4, <1>5, <1>6 DEF Kept, Answered, Minimax
<1> QED
  BY <1>3, <1>7 DEF TypeInv

LEMMA TickTyped == ASSUME IInv, TypeInv, tick PROVE TypeInv'
<1>1. cooldown' <= Cooldown
  <2>1. cooldown' = Down(cooldown) /\ cooldown \in Nat /\ cooldown <= Cooldown
    BY DEF IInv, TypeInv, tick
  <2>2. Cooldown \in Nat
    BY HttpAssumption
  <2> QED
    BY <2>1, <2>2 DEF Down
<1>2. ASSUME NEW t \in Tasks PROVE Kept(t, req'[t])
  <2> DEFINE r == req[t]
             n == [r EXCEPT !.sleep = Down(r.sleep), !.until = Down(r.until)]
  <2>1. req'[t] = n
    BY DEF tick
  <2>2. Fields \subseteq DOMAIN r /\ Kept(t, r) /\ r.until \in Nat /\ Cooldown \in Nat
    BY HttpAssumption DEF IInv, TypeInv, Sound, Fits, Typed
  <2> HIDE DEF r
  <2>3. /\ n.pc = r.pc /\ n.op = r.op /\ n.sleep = Down(r.sleep) /\ n.until = Down(r.until)
        /\ n.last = r.last /\ n.result = r.result /\ n.content = r.content /\ n.raw = r.raw
    BY <2>2 DEF Fields
  <2>4. Down(r.sleep) \in Nat /\ Down(r.until) <= Cooldown
    BY <2>2 DEF Kept, Down
  <2> HIDE DEF n
  <2>5. Kept(t, n)
    BY <2>2, <2>3, <2>4 DEF Kept, Answered
  <2> QED
    BY <2>1, <2>5
<1>3. \A t \in Tasks : Kept(t, req[t])'
  BY <1>2 DEF Kept, Answered, Minimax
<1> QED
  BY <1>1, <1>3 DEF TypeInv

LEMMA TypedNext == IInv /\ TypeInv /\ [Next]_vars => TypeInv'
<1> SUFFICES ASSUME IInv, TypeInv, [Next]_vars PROVE TypeInv'
  OBVIOUS
<1>1. ASSUME NEW t \in Tasks, Proceed(t) PROVE TypeInv'
  <2>1. ASSUME NEW raw \in Contents, reply_ok(t, raw) PROVE TypeInv'
    BY <2>1, OkTyped
  <2>2. ASSUME NEW reply, reply_fatal(t, reply) \/ reply_retried(t, reply) PROVE TypeInv'
    BY <2>2, ReplyTyped
  <2>3. ASSUME NEW n, reply_overflow(t, n) PROVE TypeInv'
    BY <2>3, OverflowTyped
  <2> QED
    BY <1>1, <2>1, <2>2, <2>3, AloneTyped, SetTyped DEF Proceed
<1>2. ASSUME NEW t \in Tasks, NEW q \in Requests, call(t, q) PROVE TypeInv'
  BY <1>2, CallTyped
<1>3. CASE tick
  BY <1>3, TickTyped
<1>4. CASE UNCHANGED vars
  BY <1>4 DEF vars, TypeInv, Kept, Answered, Minimax
<1> QED
  BY <1>1, <1>2, <1>3, <1>4 DEF Next

LEMMA TypedAlways == Spec => [](IInv /\ TypeInv)
<1>1. Init => IInv /\ TypeInv
  BY InitHolds, InitTyped
<1>2. IInv /\ TypeInv /\ [Next]_vars => (IInv /\ TypeInv)'
  BY NextKeeps, TypedNext
<1> QED
  BY <1>1, <1>2, PTL DEF Spec

\* Requests stay well formed and the cooldown never exceeds cooldown_secs,
\* however many 429s arrive at once.
THEOREM TypeCorrect == Spec => []TypeOK
<1>1. ASSUME IInv, TypeInv PROVE TypeOK
  <2>1. cooldown \in 0..Cooldown
    BY <1>1, HttpAssumption DEF IInv, TypeInv
  <2>2. ASSUME NEW t \in Tasks PROVE req[t].attempt \in 1..Larger(Len(Delays), MaxAttempts)
    <3>1. Typed(t, req[t])
      BY <1>1 DEF IInv, Sound, Fits
    <3> QED
      BY <3>1, Delayed, HttpAssumption DEF Typed, Larger
  <2>3. ASSUME NEW t \in Tasks
        PROVE  /\ req[t].pc \in Pcs /\ req[t].op \in Ops /\ req[t].rounds \in 0..MaxShrinks
               /\ {req[t].sleep, req[t].until, req[t].sent} \subseteq Nat
    BY <1>1 DEF IInv, TypeInv, Sound, Fits, Typed, Kept
  <2> QED
    BY <2>1, <2>2, <2>3 DEF Pcs, TypeOK
<1> QED
  BY <1>1, TypedAlways, PTL

\* Whatever a model writes, with any reasoning and fences around or within
\* its answer: MiniMax returns what is visible of the last reply, and judge
\* says yes only to a visible yes.
THEOREM OnlyVisibleEverReturned == Spec => []OnlyVisibleReturned
<1>1. ASSUME TypeInv, NEW t \in Tasks, req[t].pc = "done", req[t].result # "err", Minimax(t)
      PROVE  /\ req[t].last = "ok" /\ req[t].content = VisibleIn[req[t].raw]
             /\ req[t].result = "yes" => /\ VisibleIn[req[t].raw] # <<>>
                                         /\ VisibleIn[req[t].raw][1] = "YES"
  BY <1>1, CleanedIsVisible DEF TypeInv, Kept, Answered
<1>2. TypeInv => OnlyVisibleReturned
  BY <1>1 DEF OnlyVisibleReturned
<1> QED
  BY <1>2, TypedAlways, PTL
=============================================================================
