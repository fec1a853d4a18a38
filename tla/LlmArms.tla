------------------------------ MODULE LlmArms ------------------------------
(***************************************************************************)
(* The client behind --llm: build_llm_client (sage-cli/src/main.rs) puts   *)
(* FallbackLlm (sage-llm/src/fallback.rs) and HeuristicRouter (router.rs)  *)
(* over the backends.  The client is a tree; a node is named by the path   *)
(* that leads to it, <<>> for the root, 1 for the primary or light arm and *)
(* 2 for the fallback or deep arm.  A request goes down to a backend, and  *)
(* its answer up again, past every node that waits for it.                 *)
(***************************************************************************)
EXTENDS Naturals, Sequences, FiniteSets, SequencesExt

CONSTANTS
    Callers,      \* tasks that share the client
    Kinds,        \* what --llm may say
    Envs,         \* environments: records claude_bin, api_key, light, deep, threshold
    Texts,        \* user contents, as sequences of pieces
    WordLength    \* characters of a word

Pieces == {"Cap", "word", ".", " "}

ASSUME ArmsAssumption ==
    /\ IsFiniteSet(Callers)
    /\ Envs \subseteq [claude_bin: BOOLEAN, api_key: BOOLEAN,
                       light: Kinds, deep: Kinds, threshold: Nat]
    /\ Texts \subseteq Seq(Pieces)
    /\ WordLength \in Nat

VARIABLES
    client,     \* node -> "fallback", "router" or the name of a backend
    threshold,  \* of the router
    request,    \* request[c]: where the request of caller c is
    hits,       \* the counters of each node: light, deep, over
    asked       \* history: how often each node was called

armVars == <<client, threshold, request, hits, asked>>

-----------------------------------------------------------------------------
(***************************************************************************)
(* Building the client.                                                    *)
(***************************************************************************)

NoClient == [path \in {} |-> "none"]

Backend(kind) == [path \in {<<>>} |-> kind]

\* Two clients under one node.
Over(node, first, second) ==
    LET below(i, arm) == {<<i>> \o path : path \in DOMAIN arm} IN
    [path \in {<<>>} \cup below(1, first) \cup below(2, second) |->
        IF path = <<>> THEN node
        ELSE IF Head(path) = 1 THEN first[Tail(path)] ELSE second[Tail(path)]]

\* MiniMax needs a key, and gets Claude as its fallback if that is configured.
arm(kind, env) ==
    CASE kind \in {"claude-cli", "codex-cli", "gemini-cli"} -> Backend(kind)
      [] kind = "minimax" /\ env.api_key /\ env.claude_bin ->
            Over("fallback", Backend("minimax"), Backend("claude-cli"))
      [] kind = "minimax" /\ env.api_key /\ ~env.claude_bin -> Backend("minimax")
      [] OTHER -> NoClient

\* An arm of a router is never a router.
build_llm_client(kind, env) ==
    LET light == arm(env.light, env)
        deep == arm(env.deep, env) IN
    IF kind # "router" THEN arm(kind, env)
    ELSE IF NoClient \in {light, deep} THEN NoClient
    ELSE Over("router", light, deep)

IsBackend(path) == client[path] \notin {"fallback", "router"}

Backends == {path \in DOMAIN client : IsBackend(path)}

-----------------------------------------------------------------------------
(***************************************************************************)
(* The profile of a text.  A piece is a capitalised word, another word, a  *)
(* sentence mark or another separator; two words never touch.              *)
(***************************************************************************)

\* Empty tokens, between two separators, end a run of capitalised ones.
ScanPiece(scan, piece) ==
    CASE piece = "Cap"  -> [phrases |-> scan.phrases + (IF scan.in_phrase THEN 0 ELSE 1),
                            in_phrase |-> TRUE, gap |-> FALSE]
      [] piece = "word" -> [scan EXCEPT !.in_phrase = FALSE, !.gap = FALSE]
      [] OTHER          -> [scan EXCEPT !.in_phrase = @ /\ ~scan.gap, !.gap = TRUE]

profile_text(text) ==
    [char_len |-> FoldLeft(LAMBDA n, piece : n + (IF piece \in {"Cap", "word"} THEN WordLength ELSE 1),
                           0, text),
     sentence_count |-> Cardinality({i \in DOMAIN text : text[i] = "."}),
     capitalized_phrase_count |->
        FoldLeft(ScanPiece, [phrases |-> 0, in_phrase |-> FALSE, gap |-> TRUE], text).phrases]

score(profile) ==
    profile.char_len \div 50 + 5 * profile.capitalized_phrase_count + 2 * profile.sentence_count

-----------------------------------------------------------------------------
(***************************************************************************)
(* A request.  pc is                                                       *)
(*   enter   a node is being called                                        *)
(*   wait    a backend is at work                                          *)
(*   up      an answer goes back up                                        *)
(*   done    the caller has the answer                                     *)
(* waiting lists the nodes whose first arm is at work: what the other arm  *)
(* answers is returned whatever it is.                                     *)
(***************************************************************************)
Unasked == [pc |-> "idle", op |-> "complete", text |-> <<>>, at |-> <<>>, waiting |-> <<>>,
            answer |-> "none",
            tried |-> <<>>]     \* history: the backends asked, with their answers

Answers(op) == IF op = "judge" THEN {"verdict", "err"}
               ELSE {"good", "garbage", "empty", "err"}

\* is_empty_payload, or an error; of a verdict only an error.
IsBad(answer) == answer \in {"empty", "err"}

NoHits == [light |-> 0, deep |-> 0, over |-> 0]

Fresh(tree) ==
    [hits |-> [path \in DOMAIN tree |-> NoHits],
     asked |-> [path \in DOMAIN tree |-> 0]]

InitArms(kind, env) ==
    /\ client = build_llm_client(kind, env)
    /\ threshold = env.threshold
    /\ request = [c \in Callers |-> Unasked]
    /\ hits = Fresh(client).hits
    /\ asked = Fresh(client).asked

Settled(c) == request[c].pc \in {"idle", "done"}

Call(c, op, text) ==
    /\ Settled(c)
    /\ client # NoClient
    /\ request' = [request EXCEPT ![c] = [Unasked EXCEPT !.pc = "enter", !.op = op, !.text = text]]
    /\ UNCHANGED <<client, threshold, hits, asked>>

\* pick_pair: the arm a node tries first, and its counters.
first_arm(r, node) ==
    IF client[node] = "fallback" THEN [arm |-> 1, hits |-> hits[node]]
    ELSE IF r.op = "complete" /\ score(profile_text(r.text)) >= threshold
    THEN [arm |-> 2, hits |-> [hits[node] EXCEPT !.deep = @ + 1]]
    ELSE [arm |-> 1, hits |-> [hits[node] EXCEPT !.light = @ + 1]]

\* A node that is no backend hands the request to its first arm.
pick_pair(c) ==
    LET r == request[c]
        first == first_arm(r, r.at) IN
    /\ r.pc = "enter"
    /\ ~IsBackend(r.at)
    /\ asked' = [asked EXCEPT ![r.at] = @ + 1]
    /\ hits' = [hits EXCEPT ![r.at] = first.hits]
    /\ request' = [request EXCEPT ![c].at = Append(r.at, first.arm),
                                  ![c].waiting = Append(r.waiting, r.at)]
    /\ UNCHANGED <<client, threshold>>

ask(c) ==
    LET r == request[c] IN
    /\ r.pc = "enter"
    /\ IsBackend(r.at)
    /\ asked' = [asked EXCEPT ![r.at] = @ + 1]
    /\ request' = [request EXCEPT ![c].pc = "wait"]
    /\ UNCHANGED <<client, threshold, hits>>

\* Backends answer, answer something useless, answer nothing, or fail.
answer(c, a) ==
    LET r == request[c] IN
    /\ r.pc = "wait"
    /\ request' = [request EXCEPT ![c].pc = "up", ![c].answer = a,
                                  ![c].tried = Append(@, [path |-> r.at, answer |-> a])]
    /\ UNCHANGED <<client, threshold, hits, asked>>

\* Seeded fault: an empty answer is passed on instead of trying the other arm.
FallsOver_on_error_only(r) == r.answer = "err" /\ r.waiting # <<>>

\* The innermost node still waiting does not take this answer.
FallsOver(r) == IsBad(r.answer) /\ r.waiting # <<>>

\* Seeded fault: the counter counts errors, not empty answers.
failover_miscounted(c) ==
    LET r == request[c]
        node == Last(r.waiting) IN
    /\ r.pc = "up"
    /\ FallsOver(r)
    /\ hits' = [hits EXCEPT ![node].over = IF r.answer = "err" THEN @ + 1 ELSE @]
    /\ request' = [request EXCEPT ![c].pc = "enter",
                                  ![c].at = Append(node, 3 - r.at[Len(node) + 1]),
                                  ![c].waiting = Front(@)]
    /\ UNCHANGED <<client, threshold, asked>>

\* ... and asks its other arm.
failover(c) ==
    LET r == request[c]
        node == Last(r.waiting) IN
    /\ r.pc = "up"
    /\ FallsOver(r)
    /\ hits' = [hits EXCEPT ![node].over = @ + 1]
    /\ request' = [request EXCEPT ![c].pc = "enter",
                                  ![c].at = Append(node, 3 - r.at[Len(node) + 1]),
                                  ![c].waiting = Front(@)]
    /\ UNCHANGED <<client, threshold, asked>>

\* Any other answer goes all the way up.
deliver(c) ==
    LET r == request[c] IN
    /\ r.pc = "up"
    /\ ~FallsOver(r)
    /\ request' = [request EXCEPT ![c].pc = "done", ![c].waiting = <<>>]
    /\ UNCHANGED <<client, threshold, hits, asked>>

\* A request under way takes its next step.
Answering(c) ==
    \/ pick_pair(c) \/ ask(c)
    \/ \E a \in Answers(request[c].op) : answer(c, a)
    \/ failover(c) \/ deliver(c)

-----------------------------------------------------------------------------
(***************************************************************************)
(* Properties.                                                             *)
(***************************************************************************)

ArmsTypeOK ==
    /\ \A c \in Callers :
          /\ request[c].pc \in {"idle", "enter", "wait", "up", "done"}
          /\ client # NoClient => request[c].at \in DOMAIN client
          /\ request[c].answer \in Answers("judge") \cup Answers("complete") \cup {"none"}
    /\ DOMAIN hits = DOMAIN client
    /\ asked \in [DOMAIN client -> Nat]

\* A caller gets an error, or nothing, only if every backend in the tree was
\* asked and none did better (router.rs: "tried before bubbling the failure
\* up"), and no backend is ever asked twice for one request.
BadOnlyIfAllTried ==
    \A c \in Callers :
        LET r == request[c] IN
        /\ \A i, j \in DOMAIN r.tried : r.tried[i].path = r.tried[j].path => i = j
        /\ r.pc = "done" /\ IsBad(r.answer) =>
              /\ {r.tried[i].path : i \in DOMAIN r.tried} = Backends
              /\ \A i \in DOMAIN r.tried : IsBad(r.tried[i].answer)

\* What goes into a node goes on to its arms, once, and once more for each
\* failover it counts; a router's light and deep hits are what went into it.
\* So the counters tell how many calls of a backend were paid for.
CallsAccounted ==
    \A node \in DOMAIN client \ Backends :
        LET into(i) == asked[Append(node, i)]
                       + Cardinality({c \in Callers : request[c].pc = "enter"
                                                      /\ request[c].at = Append(node, i)}) IN
        /\ into(1) + into(2) = asked[node] + hits[node].over
        /\ client[node] = "router" => hits[node].light + hits[node].deep = asked[node]
=============================================================================
