---------------------------- MODULE HttpClients ----------------------------
(***************************************************************************)
(* The clients that speak HTTP: MinimaxLlm (sage-llm/src/minimax.rs) with  *)
(* its retry loop, its shrinking of messages that are too long and the     *)
(* cooldown all requests of the process share, and AnthropicLlm            *)
(* (anthropic.rs) with a retry loop of its own.  The server answers        *)
(* whatever it likes.  Time is counted in ticks still to go, so it needs   *)
(* no bound: a sleep is over at 0, and may be noticed late.                *)
(***************************************************************************)
EXTENDS Naturals, Sequences, FiniteSets, SequencesExt

CONSTANTS
    Tasks,        \* tasks that make requests
    BackendOf,    \* [Tasks -> {"minimax", "anthropic"}]
    Requests,     \* records op, messages; a message has a role and a length
    Contents,     \* what a model may write, as sequences of tokens
    Delays,       \* Delays[i]: what may be slept before attempt i, jitter included
    Cooldown,     \* cooldown_secs
    MaxShrinks,   \* rounds of shrinking
    Limits,       \* context limits the server may name
    MinBudget,    \* what shrinking leaves at least
    MaxAttempts, BaseDelay, MaxDelay,   \* RetryCfg
    MaxCalls      \* bound on the number of requests

Ops == {"complete", "judge"}
Messages == [role: {"system", "user"}, length: Nat]

ASSUME HttpAssumption ==
    /\ BackendOf \in [Tasks -> {"minimax", "anthropic"}]
    /\ Requests \subseteq [op: Ops, messages: Seq(Messages)] /\ Contents \subseteq Seq(STRING)
    /\ Delays \in Seq(SUBSET Nat) /\ Delays # <<>> /\ Delays[1] = {0}
    /\ \A i \in DOMAIN Delays : Delays[i] # {}
    /\ Limits \subseteq Nat
    /\ MaxAttempts \in Nat \ {0}
    /\ {Cooldown, MaxShrinks, MinBudget, BaseDelay, MaxDelay, MaxCalls} \subseteq Nat

VARIABLES
    cooldown,   \* MINIMAX_COOLDOWN_UNTIL: ticks until then
    req,        \* req[t]: where task t is in its request
    called      \* how many requests so far, for the bound

vars == <<cooldown, req, called>>

Larger(m, n) == IF m > n THEN m ELSE n
Smaller(m, n) == IF m < n THEN m ELSE n

-----------------------------------------------------------------------------
(***************************************************************************)
(* What the model wrote.  "nl" is white space with a line break, "fence"   *)
(* three back quotes.                                                      *)
(***************************************************************************)

Trim(s) ==
    LET solid == {i \in DOMAIN s : s[i] # "nl"} IN
    IF solid = {} THEN <<>> ELSE SubSeq(s, Min(solid), Max(solid))

\* One token of the scan; a block that is never closed swallows the rest.
Think(scan, token) ==
    CASE scan.inside -> [scan EXCEPT !.inside = token # "</think>"]
      [] ~scan.inside /\ token = "<think>" -> [scan EXCEPT !.inside = TRUE]
      [] OTHER -> [scan EXCEPT !.out = Append(@, token)]

strip_think(s) ==
    LET scan[n \in 0..Len(s)] ==
            IF n = 0 THEN [inside |-> FALSE, out |-> <<>>] ELSE Think(scan[n - 1], s[n])
    IN Trim(scan[Len(s)].out)

\* One pair of fences, if the first one has a line of its own.
strip_markdown_fence(s) ==
    LET t == Trim(s)
        breaks == {i \in DOMAIN t : t[i] = "nl"} IN
    IF t = <<>> \/ t[1] # "fence" \/ breaks = {} THEN t
    ELSE LET body == Trim(SubSeq(t, Min(breaks) + 1, Len(t))) IN
         Trim(IF body # <<>> /\ Last(body) = "fence" THEN Front(body) ELSE body)

\* Seeded fault: the fence is looked for first, before the reasoning is gone.
Cleaned_fence_first ==
    [raw \in Contents |-> strip_think(strip_markdown_fence(raw))]

Cleaned == [raw \in Contents |-> strip_markdown_fence(strip_think(raw))]

\* judge: the answer starts with a Y; no answer is a no.
Verdict(content) == IF Trim(content) # <<>> /\ Head(Trim(content)) = "YES" THEN "yes" ELSE "no"

-----------------------------------------------------------------------------
(***************************************************************************)
(* A request.  pc is                                                       *)
(*   sleep    backing off before an attempt, or after the last one         *)
(*   check    about to read the cooldown                                   *)
(*   cool     sleeping until the cooldown it has read                      *)
(*   send     about to send                                                *)
(*   flight   waiting for the server                                       *)
(*   set      its 429 has a deadline that is not in the cooldown yet       *)
(*   done     returned                                                     *)
(***************************************************************************)
Idle == [pc |-> "idle", op |-> "complete", messages |-> <<>>, attempt |-> 1, rounds |-> 0,
         sleep |-> 0,
         until |-> 0,      \* its last 429: ticks until the deadline that set
         result |-> "none",
         content |-> <<>>,
         sent |-> 0,       \* history: how often it was sent,
         last |-> "none",  \* ... what came back last,
         raw |-> <<>>,     \* ... the content in it,
         passed |-> FALSE] \* ... the cooldown was raised after it was read

Init ==
    /\ cooldown = 0
    /\ req = [t \in Tasks |-> Idle]
    /\ called = 0

At(t, pc) == req[t].pc = pc
Minimax(t) == BackendOf[t] = "minimax"

Go(t, r) ==
    /\ req' = [req EXCEPT ![t] = r]
    /\ UNCHANGED <<cooldown, called>>

\* Anthropic takes one system message, the last one, beside the others.
wire(t, messages) ==
    LET systems == SelectSeq(messages, LAMBDA m : m.role = "system")
        others == SelectSeq(messages, LAMBDA m : m.role # "system") IN
    IF Minimax(t) THEN messages
    ELSE (IF systems = <<>> THEN <<>> ELSE <<Last(systems)>>) \o others

call(t, q) ==
    /\ req[t].pc \in {"idle", "done"}
    /\ called < MaxCalls
    /\ called' = called + 1
    /\ req' = [req EXCEPT ![t] = [Idle EXCEPT
                  !.pc = IF Minimax(t) THEN "check" ELSE "send",
                  !.op = q.op, !.messages = wire(t, q.messages)]]
    /\ UNCHANGED cooldown

Returned(r, result, content) ==
    [r EXCEPT !.pc = "done", !.result = result, !.content = content, !.messages = <<>>]

Failed(r) == Returned(r, "err", <<>>)

backoff_delay(attempt) == Smaller(BaseDelay * 2 ^ Smaller(attempt - 1, 10), MaxDelay)

\* On to the next attempt.  MiniMax sleeps before one, Anthropic after one.
Again(t, r) ==
    IF ~Minimax(t) THEN {[r EXCEPT !.pc = "sleep", !.sleep = backoff_delay(r.attempt)]}
    ELSE IF r.attempt = Len(Delays) THEN {Failed(r)}
    ELSE {[r EXCEPT !.pc = "sleep", !.attempt = @ + 1, !.sleep = d] : d \in Delays[r.attempt + 1]}

\* The backoff is over.
wake(t) ==
    LET r == req[t] IN
    /\ At(t, "sleep") /\ r.sleep = 0
    /\ Go(t, IF Minimax(t) THEN [r EXCEPT !.pc = "check"]
             ELSE IF r.attempt = MaxAttempts THEN Failed(r)
             ELSE [r EXCEPT !.pc = "send", !.attempt = @ + 1])

\* The deadline is read once, and slept until.
wait_cooldown(t) ==
    /\ At(t, "check")
    /\ Go(t, [req[t] EXCEPT !.pc = IF cooldown > 0 THEN "cool" ELSE "send",
                            !.sleep = cooldown, !.passed = FALSE])

cooled(t) == At(t, "cool") /\ req[t].sleep = 0 /\ Go(t, [req[t] EXCEPT !.pc = "send"])

\* The most a request may be sent: the attempts, afresh after each shrinking.
Budget(t) == IF Minimax(t) THEN Len(Delays) * (MaxShrinks + 1) ELSE MaxAttempts

\* The history stops counting when it is beyond that.
send(t) ==
    /\ At(t, "send")
    /\ Go(t, [req[t] EXCEPT !.pc = "flight", !.sent = Smaller(@, Budget(t)) + 1])

-----------------------------------------------------------------------------
(***************************************************************************)
(* Replies.  "lost" is no reply at all: a transport error or the timeout.  *)
(***************************************************************************)
Retried(t) == IF Minimax(t) THEN {"429", "502"} ELSE {"429", "quota", "500", "502", "lost"}
Fatal(t) == {"400", "401", "garbled"} \cup
            (IF Minimax(t) THEN {"quota", "500", "lost"} ELSE {"overflow"})

Replied(t, reply) == [req[t] EXCEPT !.last = reply]

reply_ok(t, raw) ==
    /\ At(t, "flight")
    /\ LET content == IF Minimax(t) THEN Cleaned[raw] ELSE raw
           result == IF req[t].op = "judge" THEN Verdict(content) ELSE "ok" IN
       Go(t, [Returned(Replied(t, "ok"), result, content) EXCEPT !.raw = raw])

reply_fatal(t, reply) ==
    /\ At(t, "flight") /\ reply \in Fatal(t)
    /\ Go(t, Failed(Replied(t, reply)))

\* The reply makes the whole process wait.
Throttled(t, reply) == Minimax(t) /\ reply = "429" /\ Cooldown > 0

reply_retried(t, reply) ==
    LET r == Replied(t, reply) IN
    /\ At(t, "flight") /\ reply \in Retried(t)
    /\ IF Throttled(t, reply) THEN Go(t, [r EXCEPT !.pc = "set", !.until = Cooldown])
       ELSE \E next \in Again(t, r) : Go(t, next)

\* Whoever has read the cooldown already sleeps, or sends, in spite of it.
PassedBy(t, next) ==
    [u \in Tasks |->
        IF u = t THEN next
        ELSE [req[u] EXCEPT !.passed = @ \/ (req[t].until > cooldown /\ req[u].pc \in {"cool", "send"})]]

\* Seeded fault: the later of two deadlines wins, not the farther one.
set_cooldown_overwrites(t) ==
    /\ At(t, "set")
    /\ cooldown' = req[t].until
    /\ \E next \in Again(t, req[t]) : req' = PassedBy(t, next)
    /\ UNCHANGED called

\* Seeded fault: one deadline after the other.
set_cooldown_adds(t) ==
    /\ At(t, "set")
    /\ cooldown' = cooldown + req[t].until
    /\ \E next \in Again(t, req[t]) : req' = PassedBy(t, next)
    /\ UNCHANGED called

\* The second half of set_cooldown, under the lock: a deadline that another
\* task has moved beyond this one stays.
set_cooldown(t) ==
    /\ At(t, "set")
    /\ cooldown' = Larger(cooldown, req[t].until)
    /\ \E next \in Again(t, req[t]) : req' = PassedBy(t, next)
    /\ UNCHANGED called

\* The last message is cut to what should fit, three characters to a token.
Shrunk(messages, n) ==
    LET budget == Larger(3 * n, MinBudget) IN
    IF messages = <<>> THEN messages
    ELSE [messages EXCEPT ![Len(messages)].length = Smaller(@, budget)]

\* Seeded fault: nobody counts the rounds.
reply_overflow_uncounted(t, n) ==
    LET r == Replied(t, "overflow") IN
    /\ At(t, "flight") /\ Minimax(t)
    /\ Go(t, [r EXCEPT !.pc = "check", !.messages = Shrunk(@, n), !.attempt = 1])

\* Seeded fault: the comparison lets one round too many through.
reply_overflow_off_by_one(t, n) ==
    LET r == Replied(t, "overflow") IN
    /\ At(t, "flight") /\ Minimax(t)
    /\ Go(t, IF r.rounds > MaxShrinks THEN Failed(r)
             ELSE [r EXCEPT !.pc = "check", !.messages = Shrunk(@, n), !.attempt = 1,
                            !.rounds = @ + 1])

\* 400 with the context limit: shrink, and start the attempts from the first.
reply_overflow(t, n) ==
    LET r == Replied(t, "overflow") IN
    /\ At(t, "flight") /\ Minimax(t)
    /\ Go(t, IF r.rounds >= MaxShrinks THEN Failed(r)
             ELSE [r EXCEPT !.pc = "check", !.messages = Shrunk(@, n), !.attempt = 1,
                            !.rounds = @ + 1])

-----------------------------------------------------------------------------
\* Time passes for everyone who waits for it.
Down(n) == IF n = 0 THEN 0 ELSE n - 1

tick ==
    /\ cooldown > 0 \/ \E t \in Tasks : req[t].sleep > 0
    /\ cooldown' = Down(cooldown)
    /\ req' = [t \in Tasks |-> [req[t] EXCEPT !.sleep = Down(@), !.until = Down(@)]]
    /\ UNCHANGED called

Proceed(t) ==
    \/ wake(t) \/ wait_cooldown(t) \/ cooled(t) \/ send(t) \/ set_cooldown(t)
    \/ \E raw \in Contents : reply_ok(t, raw)
    \/ \E reply \in Fatal(t) : reply_fatal(t, reply)
    \/ \E reply \in Retried(t) : reply_retried(t, reply)
    \/ \E n \in Limits : reply_overflow(t, n)

Next ==
    \/ \E t \in Tasks : Proceed(t) \/ \E q \in Requests : call(t, q)
    \/ tick

Spec == Init /\ [][Next]_vars

\* Clocks run, the runtime polls what is ready, and reqwest gives up after its
\* timeout, so that a request in flight comes back in one way or the other.
Fairness == WF_vars(tick) /\ \A t \in Tasks : WF_vars(Proceed(t))

FairSpec == Spec /\ Fairness

-----------------------------------------------------------------------------
(***************************************************************************)
(* Properties.                                                             *)
(***************************************************************************)

TypeOK ==
    /\ cooldown \in 0..Cooldown
    /\ \A t \in Tasks :
          /\ req[t].pc \in {"idle", "sleep", "check", "cool", "send", "flight", "set", "done"}
          /\ req[t].op \in Ops
          /\ req[t].attempt \in 1..Larger(Len(Delays), MaxAttempts)
          /\ req[t].rounds \in 0..MaxShrinks
          /\ {req[t].sleep, req[t].until, req[t].sent} \subseteq Nat

\* Every 429 is waited for in full by whoever looks at the cooldown after it
\* was recorded, also when several tasks are throttled at once and record
\* their deadlines in another order than they took them; a request goes out
\* during a cooldown only if that was raised after the request had looked.
CooldownHeld ==
    /\ \A t \in Tasks : ~At(t, "set") => cooldown >= req[t].until
    /\ \A t \in Tasks : At(t, "send") /\ Minimax(t) /\ cooldown > 0 => req[t].passed

\* Backing off, shrinking and starting again never add up to more requests
\* than the two budgets allow, and nothing is sent once a request has failed
\* for good: it fails on the first reply that is not worth a retry, or when
\* the attempts, or the rounds of shrinking, are used up.
RetriesBounded ==
    \A t \in Tasks :
        LET r == req[t] IN
        /\ r.sent <= Budget(t)
        /\ r.pc = "done" /\ r.result = "err" =>
              \/ r.last \in Fatal(t)
              \/ r.last \in Retried(t) /\ r.attempt = IF Minimax(t) THEN Len(Delays) ELSE MaxAttempts
              \/ r.last = "overflow" /\ r.rounds = MaxShrinks

\* A token is reasoning if a block that was opened is not closed before it.
Hidden(raw, i) ==
    \E j \in 1..i : raw[j] = "<think>" /\ \A k \in j..(i - 1) : raw[k] # "</think>"

Shown(raw) ==
    LET shown[n \in 0..Len(raw)] ==
            IF n = 0 THEN <<>>
            ELSE IF Hidden(raw, n) THEN shown[n - 1] ELSE Append(shown[n - 1], raw[n])
    IN shown[Len(raw)]

VisibleIn == [raw \in Contents |-> strip_markdown_fence(Shown(raw))]

\* The content MiniMax returns is what the server sent last, without any
\* reasoning and without the fence around the rest of it ("they pollute JSON
\* parsers downstream"), and judge says yes only to a visible yes, whatever
\* the reasoning says.
OnlyVisibleReturned ==
    \A t \in Tasks :
        LET r == req[t]
            visible == VisibleIn[r.raw] IN
        r.pc = "done" /\ r.result # "err" /\ Minimax(t) =>
            /\ r.last = "ok" /\ r.content = visible
            /\ r.result = "yes" => visible # <<>> /\ visible[1] = "YES"

\* Every request comes back.
RequestReturns == \A t \in Tasks : req[t].pc # "done" /\ req[t].pc # "idle" ~> At(t, "done")
=============================================================================
