------------------------- MODULE IngestBatch_proofs -------------------------
(***************************************************************************)
(* Proofs about IngestBatch, for any file, client, policy and environment, *)
(* any number of callers, and any bounds.  The store is a SledGraphStore   *)
(* with one client, so what its proofs show is used here as it stands; the *)
(* lemmas about the actions of LlmArms, which has no next-state relation   *)
(* of its own, come first.                                                 *)
(***************************************************************************)
EXTENDS IngestBatch, FiniteSetTheorems, SequenceTheorems, TLAPS

-----------------------------------------------------------------------------
(***************************************************************************)
(* The inductive invariant, in parts.                                      *)
(***************************************************************************)

Paths == Seq({1, 2})

\* Path p leads to q, or is q.
Leads(p, q) == Len(p) <= Len(q) /\ \A i \in 1..Len(p) : p[i] = q[i]

BackendsOf(tree) == {p \in DOMAIN tree : tree[p] \notin {"fallback", "router"}}

\* Every node but a backend has two arms, and nothing is below a backend.
TreeOK(tree) ==
    /\ DOMAIN tree \subseteq Paths
    /\ tree # NoClient => <<>> \in DOMAIN tree
    /\ \A p \in DOMAIN tree \ BackendsOf(tree) :
          Append(p, 1) \in DOMAIN tree /\ Append(p, 2) \in DOMAIN tree
    /\ \A p \in BackendsOf(tree), q \in DOMAIN tree : Leads(p, q) => q = p

Everything == Answers("judge") \cup Answers("complete") \cup {"none"}

Requests == [pc: {"idle", "enter", "wait", "up", "done"}, op: {"complete", "judge"},
             text: Texts \cup {<<>>}, at: Paths, waiting: Seq(Paths), answer: Everything,
             tried: Seq([path: Paths, answer: Everything])]

UnderWay(r) == r.pc \in {"enter", "wait", "up"}

\* The nodes that wait lie on the path to where the request is, in this order.
WaitingOK(tree, r) ==
    /\ \A i \in 1..Len(r.waiting) :
          /\ r.waiting[i] \in DOMAIN tree \ BackendsOf(tree)
          /\ Leads(r.waiting[i], r.at) /\ Len(r.waiting[i]) < Len(r.at)
    /\ \A i, j \in 1..Len(r.waiting) : i < j => Len(r.waiting[i]) < Len(r.waiting[j])

\* Backend b is below a node that waits, in the arm that is not at work.
Beside(at, node, b) ==
    Leads(node, b) /\ Len(node) < Len(b) /\ b[Len(node) + 1] # at[Len(node) + 1]

\* Backends that may still be asked for this request.
Left(tree, r) ==
    {b \in BackendsOf(tree) :
        \/ r.pc \in {"enter", "wait"} /\ Leads(r.at, b)
        \/ \E i \in 1..Len(r.waiting) : Beside(r.at, r.waiting[i], b)}

TriedPaths(r) == {r.tried[i].path : i \in 1..Len(r.tried)}

\* Each backend has been asked, or may still be, but not both; all but the
\* last answer were bad.
TriedOK(tree, r) ==
    /\ \A i, j \in 1..Len(r.tried) : r.tried[i].path = r.tried[j].path => i = j
    /\ r.pc \in {"idle", "enter", "wait"} =>
          \A i \in 1..Len(r.tried) : IsBad(r.tried[i].answer)
    /\ r.pc \in {"up", "done"} =>
          /\ r.tried # <<>> /\ r.tried[Len(r.tried)].answer = r.answer
          /\ \A i \in 1..(Len(r.tried) - 1) : IsBad(r.tried[i].answer)
    /\ UnderWay(r) =>
          /\ TriedPaths(r) \cup Left(tree, r) = BackendsOf(tree)
          /\ TriedPaths(r) \cap Left(tree, r) = {}
    /\ r.pc = "done" /\ IsBad(r.answer) => TriedPaths(r) = BackendsOf(tree)

RequestOK(tree, r) ==
    /\ tree # NoClient => r.at \in DOMAIN tree
    /\ r.pc # "idle" => tree # NoClient
    /\ r.pc \in {"wait", "up"} => r.at \in BackendsOf(tree)
    /\ UnderWay(r) => WaitingOK(tree, r)
    /\ TriedOK(tree, r)

Enters(r, path) == r.pc = "enter" /\ r.at = path

Entering(req, path) == {c \in Callers : Enters(req[c], path)}

Counts == [light: Nat, deep: Nat, over: Nat]

\* CallsAccounted of any counters and requests.
AccountOK(tree, h, a, req) ==
    /\ h \in [DOMAIN tree -> Counts]
    /\ a \in [DOMAIN tree -> Nat]
    /\ \A node \in DOMAIN tree \ BackendsOf(tree) :
          LET into(i) == a[Append(node, i)] + Cardinality(Entering(req, Append(node, i))) IN
          /\ into(1) + into(2) = a[node] + h[node].over
          /\ tree[node] = "router" => h[node].light + h[node].deep = a[node]

RequestsOK ==
    /\ TreeOK(client)
    /\ request \in [Callers -> Requests]
    /\ \A c \in Callers : RequestOK(client, request[c])

CountersOK == AccountOK(client, hits, asked, request)

ArmsInv == RequestsOK /\ CountersOK

-----------------------------------------------------------------------------
(***************************************************************************)
(* Paths.                                                                  *)
(***************************************************************************)

LEMMA PathFacts ==
    ASSUME NEW p \in Paths, NEW i \in {1, 2}
    PROVE  /\ Append(p, i) \in Paths /\ Len(Append(p, i)) = Len(p) + 1
           /\ Append(p, i)[Len(p) + 1] = i
           /\ \A j \in 1..Len(p) : Append(p, i)[j] = p[j]
           /\ Len(p) \in Nat
           /\ \A j \in 1..Len(p) : p[j] \in {1, 2}
           /\ Append(p, i) # <<>>
BY DEF Paths

LEMMA AppendOne ==
    ASSUME NEW p \in Paths, NEW q \in Paths, NEW i \in {1, 2}, NEW j \in {1, 2},
           Append(p, i) = Append(q, j)
    PROVE  p = q /\ i = j
BY AppendInjective DEF Paths

\* An arm's path under its node.
LEMMA BelowFacts ==
    ASSUME NEW p \in Paths, NEW i \in {1, 2}
    PROVE  /\ <<i>> \o p \in Paths /\ <<i>> \o p # <<>>
           /\ Head(<<i>> \o p) = i /\ Tail(<<i>> \o p) = p
           /\ Len(<<i>> \o p) = Len(p) + 1
           /\ (<<i>> \o p)[1] = i
           /\ \A j \in 1..Len(p) : (<<i>> \o p)[j + 1] = p[j]
           /\ \A a \in {1, 2} : Append(<<i>> \o p, a) = <<i>> \o Append(p, a)
<1>1. <<i>> \in Seq({1, 2}) /\ Len(<<i>>) = 1 /\ p \in Seq({1, 2}) /\ <<i>>[1] = i
  BY DEF Paths
<1>2. /\ <<i>> \o p \in Paths /\ Len(<<i>> \o p) = Len(p) + 1
      /\ (<<i>> \o p)[1] = i
      /\ \A j \in 1..Len(p) : (<<i>> \o p)[j + 1] = p[j]
  BY <1>1 DEF Paths
<1>3. <<i>> \o p # <<>> /\ Head(<<i>> \o p) = i /\ Tail(<<i>> \o p) = p
  BY <1>1
<1>4. ASSUME NEW a \in {1, 2} PROVE Append(<<i>> \o p, a) = <<i>> \o Append(p, a)
  BY <1>1
<1> QED
  BY <1>2, <1>3, <1>4

LEMMA LeadsFacts ==
    /\ \A p \in Paths : Leads(p, p) /\ Leads(<<>>, p)
    /\ \A p, q \in Paths : Leads(p, q) /\ Leads(q, p) => p = q
    /\ \A p, q, r \in Paths : Leads(p, q) /\ Leads(q, r) => Leads(p, r)
    /\ \A p, q \in Paths, i \in {1, 2} :
          Leads(<<i>> \o p, <<i>> \o q) => Leads(p, q)
    /\ \A p, q \in Paths, i, j \in {1, 2} :
          Leads(<<i>> \o p, <<j>> \o q) => i = j
<1>1. \A p \in Paths : Len(p) \in Nat
  BY DEF Paths
<1>2. \A p \in Paths : Leads(p, p) /\ Leads(<<>>, p)
  BY <1>1 DEF Leads
<1>3. ASSUME NEW p \in Paths, NEW q \in Paths, Leads(p, q), Leads(q, p) PROVE p = q
  <2>1. Len(p) = Len(q) /\ \A i \in 1..Len(p) : p[i] = q[i]
    BY <1>1, <1>3 DEF Leads
  <2> QED
    BY <2>1, SeqEqual DEF Paths
<1>4. \A p, q, r \in Paths : Leads(p, q) /\ Leads(q, r) => Leads(p, r)
  BY <1>1 DEF Leads
<1>5. ASSUME NEW p \in Paths, NEW q \in Paths, NEW i \in {1, 2}, NEW j \in {1, 2},
             Leads(<<i>> \o p, <<j>> \o q)
      PROVE  i = j /\ Leads(p, q)
  <2>1. /\ Len(<<i>> \o p) = Len(p) + 1 /\ Len(<<j>> \o q) = Len(q) + 1
        /\ (<<i>> \o p)[1] = i /\ (<<j>> \o q)[1] = j
        /\ \A k \in 1..Len(p) : (<<i>> \o p)[k + 1] = p[k]
        /\ \A k \in 1..Len(q) : (<<j>> \o q)[k + 1] = q[k]
    BY BelowFacts
  <2> DEFINE pp == <<i>> \o p
             qq == <<j>> \o q
  <2> HIDE DEF pp, qq
  <2>2. Len(pp) <= Len(qq) /\ \A k \in 1..Len(pp) : pp[k] = qq[k]
    BY <1>5 DEF Leads, pp, qq
  <2>3. /\ Len(pp) = Len(p) + 1 /\ Len(qq) = Len(q) + 1
        /\ pp[1] = i /\ qq[1] = j
        /\ \A k \in 1..Len(p) : pp[k + 1] = p[k]
        /\ \A k \in 1..Len(q) : qq[k + 1] = q[k]
    BY <2>1 DEF pp, qq
  <2>4. Len(p) \in Nat /\ Len(q) \in Nat /\ Len(p) <= Len(q) /\ i = j
    BY <1>1, <2>2, <2>3
  <2>5. ASSUME NEW k \in 1..Len(p) PROVE p[k] = q[k]
    <3>1. k + 1 \in 1..Len(pp) /\ k \in 1..Len(q)
      BY <2>3, <2>4
    <3> QED
      BY <2>2, <2>3, <3>1
  <2> QED
    BY <2>4, <2>5 DEF Leads
<1> QED
  BY <1>2, <1>3, <1>4, <1>5

-----------------------------------------------------------------------------
(***************************************************************************)
(* The client that is built.                                               *)
(***************************************************************************)

Nodes == {"fallback", "router"}

LEMMA NothingBuilt == TreeOK(NoClient) /\ DOMAIN NoClient = {}
BY DEF TreeOK, NoClient, BackendsOf

LEMMA BackendOK ==
    ASSUME NEW kind, kind \notin Nodes
    PROVE  TreeOK(Backend(kind)) /\ <<>> \in DOMAIN Backend(kind)
<1>1. DOMAIN Backend(kind) = {<<>>} /\ Backend(kind)[<<>>] = kind
  BY DEF Backend
<1>2. BackendsOf(Backend(kind)) = {<<>>}
  BY <1>1 DEF BackendsOf, Nodes
<1>3. <<>> \in Paths
  BY DEF Paths
<1> QED
  BY <1>1, <1>2, <1>3 DEF TreeOK

\* Two trees under one node are a tree.
LEMMA OverOK ==
    ASSUME NEW node \in Nodes,
           NEW first, TreeOK(first), <<>> \in DOMAIN first,
           NEW second, TreeOK(second), <<>> \in DOMAIN second
    PROVE  TreeOK(Over(node, first, second)) /\ <<>> \in DOMAIN Over(node, first, second)
<1> DEFINE tree == Over(node, first, second)
           part(i) == IF i = 1 THEN first ELSE second
           below(i, p) == <<i>> \o p
<1>1. DOMAIN first \subseteq Paths /\ DOMAIN second \subseteq Paths
  BY DEF TreeOK
<1>2. DOMAIN tree = {<<>>} \cup {below(1, p) : p \in DOMAIN first} \cup {below(2, p) : p \in DOMAIN second}
  BY DEF Over
<1>3. tree[<<>>] = node
  BY DEF Over
<1>4. ASSUME NEW i \in {1, 2}, NEW p \in DOMAIN part(i)
      PROVE  below(i, p) \in DOMAIN tree /\ tree[below(i, p)] = part(i)[p]
  <2>1. p \in Paths /\ below(i, p) \in DOMAIN tree
    BY <1>1, <1>2
  <2>2. below(i, p) # <<>> /\ Head(below(i, p)) = i /\ Tail(below(i, p)) = p
    BY <2>1, BelowFacts
  <2> HIDE DEF below
  <2>3. tree = [path \in DOMAIN tree |->
                   IF path = <<>> THEN node
                   ELSE IF Head(path) = 1 THEN first[Tail(path)] ELSE second[Tail(path)]]
    BY DEF Over
  <2> QED
    BY <2>1, <2>2, <2>3
<1>5. \A q \in DOMAIN tree : q = <<>> \/ \E i \in {1, 2} : \E p \in DOMAIN part(i) : q = below(i, p)
  BY <1>2
<1>6. \A i \in {1, 2} : TreeOK(part(i)) /\ <<>> \in DOMAIN part(i) /\ DOMAIN part(i) \subseteq Paths
  BY <1>1
<1>7. \A i \in {1, 2} : \A p \in Paths : /\ below(i, p) \in Paths /\ below(i, p) # <<>>
                                         /\ \A a \in {1, 2} : Append(below(i, p), a) = below(i, Append(p, a))
  BY BelowFacts
<1>8. \A i, j \in {1, 2} : \A p, q \in Paths : Leads(below(i, p), below(j, q)) => i = j /\ Leads(p, q)
  BY LeadsFacts
<1>9. below(1, <<>>) = Append(<<>>, 1) /\ below(2, <<>>) = Append(<<>>, 2) /\ <<>> \in Paths
  BY DEF Paths
<1> HIDE DEF tree, part, below
<1>10. DOMAIN tree \subseteq Paths
  <2>1. \A i \in {1, 2} : \A p \in DOMAIN part(i) : p \in Paths
    BY <1>6
  <2>2. \A i \in {1, 2} : \A p \in DOMAIN part(i) : below(i, p) \in Paths
    BY <1>7, <2>1
  <2>3. \A q \in DOMAIN tree : q \in Paths
    BY <1>5, <1>9, <2>2
  <2> QED
    BY <2>3
<1>11. \A i \in {1, 2} : \A p \in DOMAIN part(i) :
          below(i, p) \in BackendsOf(tree) <=> p \in BackendsOf(part(i))
  BY <1>4 DEF BackendsOf
<1>12. <<>> \in DOMAIN tree /\ <<>> \notin BackendsOf(tree)
  BY <1>2, <1>3 DEF BackendsOf, Nodes
<1>13. ASSUME NEW q \in DOMAIN tree \ BackendsOf(tree), NEW a \in {1, 2}
       PROVE  Append(q, a) \in DOMAIN tree
  <2>1. CASE q = <<>>
    BY <1>4, <1>6, <1>9, <2>1
  <2>2. CASE q # <<>>
    <3> PICK i \in {1, 2} : \E p \in DOMAIN part(i) : q = below(i, p)
      BY <1>5, <2>2
    <3>1. PICK p \in DOMAIN part(i) : q = below(i, p)
      OBVIOUS
    <3>2. p \notin BackendsOf(part(i)) /\ p \in Paths
      BY <1>6, <1>11, <3>1
    <3>3. Append(p, a) \in DOMAIN part(i)
      BY <1>6, <3>2 DEF TreeOK
    <3>4. Append(q, a) = below(i, Append(p, a))
      BY <1>7, <3>1, <3>2
    <3> QED
      BY <1>4, <3>3, <3>4
  <2> QED
    BY <2>1, <2>2
<1>14. ASSUME NEW b \in BackendsOf(tree), NEW q \in DOMAIN tree, Leads(b, q) PROVE q = b
  <2> PICK i \in {1, 2} : \E p \in DOMAIN part(i) : b = below(i, p)
    BY <1>5, <1>12 DEF BackendsOf
  <2>1. PICK p \in DOMAIN part(i) : b = below(i, p)
    OBVIOUS
  <2>2. p \in BackendsOf(part(i)) /\ p \in Paths /\ b \in Paths
    BY <1>6, <1>7, <1>11, <2>1
  <2>3. q # <<>>
    <3>1. Len(b) # 0 /\ Len(b) \in Nat
      BY <1>7, <2>1, <2>2 DEF Paths
    <3> QED
      BY <1>14, <3>1 DEF Leads
  <2> PICK j \in {1, 2} : \E r \in DOMAIN part(j) : q = below(j, r)
    BY <1>5, <2>3
  <2>4. PICK r \in DOMAIN part(j) : q = below(j, r)
    OBVIOUS
  <2>5. i = j /\ Leads(p, r)
    BY <1>6, <1>8, <1>14, <2>1, <2>2, <2>4
  <2>6. r = p
    BY <1>6, <2>2, <2>4, <2>5 DEF TreeOK
  <2> QED
    BY <2>1, <2>4, <2>5, <2>6
<1>15. TreeOK(tree)
  BY <1>10, <1>12, <1>13, <1>14 DEF TreeOK
<1> QED
  BY <1>12, <1>15 DEF tree

\* Whatever --llm and the environment say, the client is a tree.
LEMMA BuiltOK ==
    ASSUME NEW kind, NEW env
    PROVE  TreeOK(build_llm_client(kind, env))
<1>1. \A k : k \in {"minimax", "claude-cli", "codex-cli", "gemini-cli"} => k \notin Nodes
  BY DEF Nodes
<1>2. ASSUME NEW k
      PROVE  /\ TreeOK(arm(k, env))
             /\ arm(k, env) # NoClient => <<>> \in DOMAIN arm(k, env)
  <2>1. CASE k \in {"claude-cli", "codex-cli", "gemini-cli"}
    <3>1. arm(k, env) = Backend(k)
      BY <2>1 DEF arm
    <3> QED
      BY <1>1, <2>1, <3>1, BackendOK
  <2>2. CASE k = "minimax" /\ env.api_key /\ env.claude_bin
    <3>1. arm(k, env) = Over("fallback", Backend("minimax"), Backend("claude-cli"))
      BY <2>2 DEF arm
    <3>2. "fallback" \in Nodes
      BY DEF Nodes
    <3> QED
      BY <1>1, <3>1, <3>2, BackendOK, OverOK
  <2>3. CASE k = "minimax" /\ env.api_key /\ ~env.claude_bin
    <3>1. arm(k, env) = Backend("minimax")
      BY <2>3 DEF arm
    <3> QED
      BY <1>1, <3>1, BackendOK
  <2>4. CASE k \notin {"claude-cli", "codex-cli", "gemini-cli"} /\ ~(k = "minimax" /\ env.api_key)
    <3>1. arm(k, env) = NoClient
      BY <2>4 DEF arm
    <3> QED
      BY <3>1, NothingBuilt
  <2> QED
    BY <2>1, <2>2, <2>3, <2>4
<1>3. CASE kind # "router"
  BY <1>2, <1>3 DEF build_llm_client
<1>4. CASE kind = "router" /\ NoClient \in {arm(env.light, env), arm(env.deep, env)}
  BY <1>4, NothingBuilt DEF build_llm_client
<1>5. CASE kind = "router" /\ NoClient \notin {arm(env.light, env), arm(env.deep, env)}
  <2>1. build_llm_client(kind, env) = Over("router", arm(env.light, env), arm(env.deep, env))
    BY <1>5 DEF build_llm_client
  <2>2. "router" \in Nodes
    BY DEF Nodes
  <2> QED
    BY <1>2, <1>5, <2>1, <2>2, OverOK
<1> QED
  BY <1>3, <1>4, <1>5

-----------------------------------------------------------------------------
(***************************************************************************)
(* A request on its way through the tree.                                  *)
(***************************************************************************)

\* What is below a node is below one of its arms.
LEMMA Branches ==
    ASSUME NEW p \in Paths, NEW b \in Paths, NEW i \in {1, 2}
    PROVE  Leads(p, b) /\ b # p <=> Leads(Append(p, i), b) \/ Beside(Append(p, i), p, b)
<1> DEFINE q == Append(p, i)
           n == Len(p)
<1>1. n \in Nat /\ Len(b) \in Nat /\ (\A k \in 1..Len(b) : b[k] \in {1, 2})
  BY DEF Paths
<1>2. Len(q) = n + 1 /\ q[n + 1] = i /\ \A k \in 1..n : q[k] = p[k]
  BY PathFacts
<1>3. Leads(p, b) /\ b # p => n < Len(b)
  <2> SUFFICES ASSUME Leads(p, b), ~(n < Len(b)) PROVE b = p
    OBVIOUS
  <2>1. Len(b) = n /\ \A k \in 1..n : b[k] = p[k]
    BY <1>1 DEF Leads
  <2> QED
    BY <2>1, SeqEqual DEF Paths
<1> HIDE DEF q
<1>4. Leads(q, b) <=> n < Len(b) /\ Leads(p, b) /\ b[n + 1] = i
  <2>1. n < Len(b) => n + 1 <= Len(b) /\ n + 1 \in 1..Len(b)
    BY <1>1
  <2>2. ASSUME Leads(q, b) PROVE n < Len(b) /\ Leads(p, b) /\ b[n + 1] = i
    BY <1>1, <1>2, <2>2 DEF Leads
  <2>3. ASSUME n < Len(b), Leads(p, b), b[n + 1] = i PROVE Leads(q, b)
    <3>1. \A k \in 1..(n + 1) : k \in 1..n \/ k = n + 1
      BY <1>1
    <3> QED
      BY <1>1, <1>2, <2>3, <3>1 DEF Leads
  <2> QED
    BY <2>2, <2>3
<1>5. Beside(q, p, b) <=> n < Len(b) /\ Leads(p, b) /\ b[n + 1] # i
  BY <1>2 DEF Beside
<1>6. n < Len(b) => b # p
  BY <1>1
<1>7. Leads(p, b) /\ b # p <=> Leads(q, b) \/ Beside(q, p, b)
  BY <1>3, <1>4, <1>5, <1>6
<1> QED
  BY <1>7 DEF q

\* What is beside the way is below the other arm.
LEMMA OtherArm ==
    ASSUME NEW p \in Paths, NEW at \in Paths, NEW b \in Paths, Len(p) < Len(at)
    PROVE  LET i == 3 - at[Len(p) + 1] IN
           i \in {1, 2} /\ (Beside(at, p, b) <=> Leads(Append(p, i), b))
<1> DEFINE n == Len(p)
           i == 3 - at[n + 1]
           q == Append(p, i)
<1>1. /\ n \in Nat /\ Len(b) \in Nat /\ Len(at) \in Nat
      /\ (\A k \in 1..Len(b) : b[k] \in {1, 2}) /\ (\A k \in 1..Len(at) : at[k] \in {1, 2})
  BY DEF Paths
<1>2. at[n + 1] \in {1, 2}
  BY <1>1
<1>3. i \in {1, 2} /\ at[n + 1] # i
  BY <1>2
<1> HIDE DEF i
<1>4. Len(q) = n + 1 /\ q[n + 1] = i /\ \A k \in 1..n : q[k] = p[k]
  BY <1>3, PathFacts
<1>5. \A k \in 1..(n + 1) : k \in 1..n \/ k = n + 1
  BY <1>1
<1>6. n < Len(b) => b[n + 1] \in {1, 2} /\ (b[n + 1] # at[n + 1] <=> b[n + 1] = i)
  BY <1>1, <1>2 DEF i
<1> HIDE DEF q
<1>7. Beside(at, p, b) <=> Leads(q, b)
  BY <1>1, <1>4, <1>5, <1>6 DEF Beside, Leads
<1> QED
  BY <1>3, <1>7 DEF i, q

\* An answer is only on its way when a backend has been asked.
LEMMA StillTried ==
    ASSUME NEW tree, NEW r \in Requests, NEW q \in Requests, q.tried = r.tried,
           UnderWay(r), UnderWay(q), TriedOK(tree, r), Left(tree, q) = Left(tree, r),
           q.pc = "up" => r.pc = "up" /\ q.answer = r.answer,
           r.pc = "up" /\ q.pc # "up" => IsBad(r.answer)
    PROVE  TriedOK(tree, q)
<1>1. TriedPaths(q) = TriedPaths(r)
  BY DEF TriedPaths
<1>2. r.pc = "up" /\ q.pc # "up" => \A i \in 1..Len(r.tried) : IsBad(r.tried[i].answer)
  <2> SUFFICES ASSUME r.pc = "up", q.pc # "up", NEW i \in 1..Len(r.tried)
               PROVE  IsBad(r.tried[i].answer)
    OBVIOUS
  <2>1. Len(r.tried) \in Nat
    BY DEF Requests
  <2>2. i = Len(r.tried) \/ i \in 1..(Len(r.tried) - 1)
    BY <2>1
  <2> QED
    BY <2>2 DEF TriedOK
<1>3. q.pc \in {"enter", "wait"} => \A i \in 1..Len(r.tried) : IsBad(r.tried[i].answer)
  BY <1>2 DEF TriedOK, UnderWay
<1>4. q.pc \in {"enter", "wait", "up"}
  BY DEF UnderWay
<1> QED
  BY <1>1, <1>3, <1>4 DEF TriedOK, UnderWay

LEMMA RequestFields ==
    ASSUME NEW r \in Requests
    PROVE  /\ r.pc \in {"idle", "enter", "wait", "up", "done"}
           /\ r.at \in Paths /\ r.waiting \in Seq(Paths) /\ r.answer \in Everything
           /\ Len(r.waiting) \in Nat /\ (\A i \in 1..Len(r.waiting) : r.waiting[i] \in Paths)
           /\ r.tried \in Seq([path: Paths, answer: Everything]) /\ Len(r.tried) \in Nat
BY DEF Requests

LEMMA Picked ==
    ASSUME NEW tree, TreeOK(tree), NEW r \in Requests, RequestOK(tree, r),
           r.pc = "enter", r.at \notin BackendsOf(tree), NEW i \in {1, 2}
    PROVE  LET q == [r EXCEPT !.at = Append(r.at, i), !.waiting = Append(r.waiting, r.at)] IN
           q \in Requests /\ RequestOK(tree, q)
<1> DEFINE at == Append(r.at, i)
           waiting == Append(r.waiting, r.at)
           q == [r EXCEPT !.at = at, !.waiting = waiting]
           n == Len(r.waiting)
<1>1. /\ r.at \in Paths /\ r.waiting \in Seq(Paths) /\ n \in Nat
      /\ \A k \in 1..n : r.waiting[k] \in Paths
  BY RequestFields
<1>2. /\ at \in Paths /\ Len(at) = Len(r.at) + 1 /\ Len(r.at) \in Nat
      /\ \A k \in 1..Len(r.at) : at[k] = r.at[k]
  BY <1>1, PathFacts
<1>3. /\ waiting \in Seq(Paths) /\ Len(waiting) = n + 1
      /\ waiting[n + 1] = r.at /\ \A k \in 1..n : waiting[k] = r.waiting[k]
  BY <1>1
<1>4. /\ q \in Requests /\ q.pc = "enter" /\ q.at = at /\ q.waiting = waiting
      /\ q.tried = r.tried /\ q.answer = r.answer
  BY <1>2, <1>3 DEF Requests
<1> HIDE DEF at, waiting, q
<1>5. tree # NoClient /\ r.at \in DOMAIN tree /\ WaitingOK(tree, r) /\ TriedOK(tree, r)
  BY DEF RequestOK, UnderWay
<1>6. at \in DOMAIN tree
  BY <1>5 DEF TreeOK, at
<1>7. \A k \in 1..(n + 1) : k \in 1..n \/ k = n + 1
  BY <1>1
<1>8. ASSUME NEW k \in 1..n
      PROVE  /\ waiting[k] = r.waiting[k] /\ r.waiting[k] \in DOMAIN tree \ BackendsOf(tree)
             /\ Len(r.waiting[k]) \in Nat /\ Len(r.waiting[k]) < Len(r.at)
             /\ Leads(r.waiting[k], at)
             /\ at[Len(r.waiting[k]) + 1] = r.at[Len(r.waiting[k]) + 1]
  <2>1. /\ r.waiting[k] \in DOMAIN tree \ BackendsOf(tree)
        /\ Leads(r.waiting[k], r.at) /\ Len(r.waiting[k]) < Len(r.at)
    BY <1>5 DEF WaitingOK
  <2>2. Len(r.waiting[k]) \in Nat
    BY <1>1 DEF Paths
  <2>3. at[Len(r.waiting[k]) + 1] = r.at[Len(r.waiting[k]) + 1]
    BY <1>2, <2>1, <2>2
  <2>4. Leads(r.waiting[k], at)
    BY <1>2, <2>1, <2>2 DEF Leads
  <2> QED
    BY <1>3, <2>1, <2>2, <2>3, <2>4
<1>9. Leads(r.at, at) /\ r.at \in DOMAIN tree \ BackendsOf(tree)
  BY <1>2, <1>5 DEF Leads
<1>10. WaitingOK(tree, q)
  <2>1. ASSUME NEW k \in 1..(n + 1)
        PROVE  /\ waiting[k] \in DOMAIN tree \ BackendsOf(tree)
               /\ Leads(waiting[k], at) /\ Len(waiting[k]) < Len(at)
    <3>1. CASE k \in 1..n
      BY <1>2, <1>8, <3>1
    <3>2. CASE k = n + 1
      BY <1>2, <1>3, <1>9, <3>2
    <3> QED
      BY <1>7, <3>1, <3>2
  <2>2. ASSUME NEW j \in 1..(n + 1), NEW k \in 1..(n + 1), j < k
        PROVE  Len(waiting[j]) < Len(waiting[k])
    <3>1. j \in 1..n
      BY <1>1, <2>2
    <3>2. CASE k \in 1..n
      BY <1>5, <1>8, <2>2, <3>1, <3>2 DEF WaitingOK
    <3>3. CASE k = n + 1
      BY <1>3, <1>8, <3>1, <3>3
    <3> QED
      BY <1>7, <3>2, <3>3
  <2> QED
    BY <1>3, <1>4, <2>1, <2>2 DEF WaitingOK
<1>11. ASSUME NEW b \in BackendsOf(tree)
       PROVE  b \in Left(tree, q) <=> b \in Left(tree, r)
  <2>1. b \in Paths /\ b # r.at
    BY <1>9 DEF TreeOK, BackendsOf
  <2>2. Leads(r.at, b) <=> Leads(at, b) \/ Beside(at, r.at, b)
    BY <1>1, <2>1, Branches DEF at
  <2>3. \A k \in 1..n : Beside(at, waiting[k], b) <=> Beside(r.at, r.waiting[k], b)
    BY <1>8 DEF Beside
  <2>4. b \in Left(tree, r) <=> \/ Leads(r.at, b)
                                \/ \E k \in 1..n : Beside(r.at, r.waiting[k], b)
    BY DEF Left
  <2>5. b \in Left(tree, q) <=> \/ Leads(at, b)
                                \/ \E k \in 1..(n + 1) : Beside(at, waiting[k], b)
    BY <1>3, <1>4 DEF Left
  <2>6. (\E k \in 1..(n + 1) : Beside(at, waiting[k], b))
           <=> (\E k \in 1..n : Beside(at, waiting[k], b)) \/ Beside(at, r.at, b)
    <3>1. n + 1 \in 1..(n + 1) /\ \A k \in 1..n : k \in 1..(n + 1)
      BY <1>1
    <3> QED
      BY <1>3, <1>7, <3>1
  <2> QED
    BY <2>2, <2>3, <2>4, <2>5, <2>6
<1>12. Left(tree, q) = Left(tree, r)
  BY <1>11 DEF Left
<1>13. TriedOK(tree, q)
  BY <1>4, <1>5, <1>12, StillTried DEF UnderWay
<1>14. RequestOK(tree, q)
  BY <1>4, <1>5, <1>6, <1>10, <1>13 DEF RequestOK
<1> QED
  BY <1>4, <1>14 DEF q, at, waiting

LEMMA FailedOver ==
    ASSUME NEW tree, TreeOK(tree), NEW r \in Requests, RequestOK(tree, r),
           r.pc = "up", FallsOver(r)
    PROVE  LET node == Last(r.waiting)
               i == 3 - r.at[Len(node) + 1]
               q == [r EXCEPT !.pc = "enter", !.at = Append(node, i), !.waiting = Front(@)] IN
           /\ node \in DOMAIN tree \ BackendsOf(tree) /\ i \in {1, 2}
           /\ q \in Requests /\ RequestOK(tree, q)
<1> DEFINE n == Len(r.waiting)
           node == r.waiting[n]
           i == 3 - r.at[Len(node) + 1]
           at == Append(node, i)
           waiting == Front(r.waiting)
           q == [r EXCEPT !.pc = "enter", !.at = at, !.waiting = waiting]
<1>1. /\ r.at \in Paths /\ r.waiting \in Seq(Paths) /\ n \in Nat /\ Last(r.waiting) = node
      /\ \A k \in 1..n : r.waiting[k] \in Paths
  BY RequestFields DEF Last
<1>2. r.waiting # <<>> /\ IsBad(r.answer)
  BY DEF FallsOver
<1>3. n \in 1..n /\ n - 1 \in Nat /\ (\A k \in 1..n : k \in 1..(n - 1) \/ k = n)
      /\ \A k \in 1..(n - 1) : k \in 1..n /\ k < n
  <2>1. n # 0
    BY <1>1, <1>2
  <2> QED
    BY <1>1, <2>1
<1>4. tree # NoClient /\ r.at \in DOMAIN tree /\ WaitingOK(tree, r) /\ TriedOK(tree, r)
  BY DEF RequestOK, UnderWay
<1>5. /\ \A k \in 1..n : /\ r.waiting[k] \in DOMAIN tree \ BackendsOf(tree)
                         /\ Leads(r.waiting[k], r.at) /\ Len(r.waiting[k]) < Len(r.at)
      /\ \A j, k \in 1..n : j < k => Len(r.waiting[j]) < Len(r.waiting[k])
  BY <1>4 DEF WaitingOK
<1>6. /\ node \in DOMAIN tree \ BackendsOf(tree) /\ node \in Paths
      /\ Leads(node, r.at) /\ Len(node) < Len(r.at)
  BY <1>1, <1>3, <1>5
<1>7. i \in {1, 2} /\ \A b \in Paths : Beside(r.at, node, b) <=> Leads(at, b)
  BY <1>1, <1>6, OtherArm
<1> HIDE DEF i
<1>8. /\ at \in Paths /\ Len(at) = Len(node) + 1 /\ Len(node) \in Nat
      /\ \A k \in 1..Len(node) : at[k] = node[k]
  BY <1>6, <1>7, PathFacts
<1>9. at \in DOMAIN tree
  BY <1>6, <1>7 DEF TreeOK
<1>10. /\ waiting \in Seq(Paths) /\ Len(waiting) = n - 1
       /\ \A k \in 1..(n - 1) : waiting[k] = r.waiting[k]
  BY <1>1, <1>3 DEF Front
<1>11. /\ q \in Requests /\ q.pc = "enter" /\ q.at = at /\ q.waiting = waiting
       /\ q.tried = r.tried /\ q.answer = r.answer
  BY <1>8, <1>10 DEF Requests
<1> HIDE DEF at, waiting, q
<1>12. ASSUME NEW k \in 1..(n - 1)
       PROVE  /\ Leads(r.waiting[k], at) /\ Len(r.waiting[k]) < Len(at)
              /\ at[Len(r.waiting[k]) + 1] = r.at[Len(r.waiting[k]) + 1]
  <2>1. /\ k \in 1..n /\ Len(r.waiting[k]) < Len(node) /\ Leads(r.waiting[k], r.at)
        /\ Len(r.waiting[k]) \in Nat
    BY <1>1, <1>3, <1>5 DEF Paths
  <2>2. \A j \in 1..Len(node) : at[j] = r.at[j]
    BY <1>6, <1>8 DEF Leads
  <2>3. Leads(r.waiting[k], at)
    BY <1>8, <2>1, <2>2 DEF Leads
  <2> QED
    BY <1>8, <2>1, <2>2, <2>3
<1>13. WaitingOK(tree, q)
  BY <1>3, <1>5, <1>10, <1>11, <1>12 DEF WaitingOK
<1>14. ASSUME NEW b \in BackendsOf(tree)
       PROVE  b \in Left(tree, q) <=> b \in Left(tree, r)
  <2>1. b \in Paths
    BY DEF TreeOK, BackendsOf
  <2>2. \A k \in 1..(n - 1) : Beside(at, waiting[k], b) <=> Beside(r.at, r.waiting[k], b)
    BY <1>10, <1>12 DEF Beside
  <2>3. Beside(r.at, node, b) <=> Leads(at, b)
    BY <1>7, <2>1 DEF at
  <2>4. b \in Left(tree, r) <=> \E k \in 1..n : Beside(r.at, r.waiting[k], b)
    BY DEF Left
  <2>5. b \in Left(tree, q) <=> \/ Leads(at, b)
                                \/ \E k \in 1..(n - 1) : Beside(at, waiting[k], b)
    BY <1>10, <1>11 DEF Left
  <2>6. (\E k \in 1..n : Beside(r.at, r.waiting[k], b))
           <=> (\E k \in 1..(n - 1) : Beside(r.at, r.waiting[k], b)) \/ Beside(r.at, node, b)
    BY <1>3
  <2> QED
    BY <2>2, <2>3, <2>4, <2>5, <2>6
<1>15. Left(tree, q) = Left(tree, r)
  BY <1>14 DEF Left
<1>16. TriedOK(tree, q)
  BY <1>2, <1>4, <1>11, <1>15, StillTried DEF UnderWay
<1>17. RequestOK(tree, q)
  BY <1>4, <1>9, <1>11, <1>13, <1>16 DEF RequestOK
<1> QED
  BY <1>1, <1>6, <1>7, <1>11, <1>17 DEF q, at, waiting, i

LEMMA Asked ==
    ASSUME NEW tree, TreeOK(tree), NEW r \in Requests, RequestOK(tree, r),
           r.pc = "enter", r.at \in BackendsOf(tree)
    PROVE  LET q == [r EXCEPT !.pc = "wait"] IN q \in Requests /\ RequestOK(tree, q)
<1> DEFINE q == [r EXCEPT !.pc = "wait"]
<1>1. /\ q \in Requests /\ q.pc = "wait" /\ q.at = r.at /\ q.waiting = r.waiting
      /\ q.tried = r.tried /\ q.answer = r.answer
  BY DEF Requests
<1> HIDE DEF q
<1>2. Left(tree, q) = Left(tree, r)
  BY <1>1 DEF Left
<1>3. WaitingOK(tree, q) /\ tree # NoClient /\ q.at \in DOMAIN tree
  BY <1>1 DEF RequestOK, WaitingOK, UnderWay
<1>4. TriedOK(tree, q)
  BY <1>1, <1>2, StillTried DEF RequestOK, UnderWay
<1>5. RequestOK(tree, q)
  BY <1>1, <1>3, <1>4 DEF RequestOK
<1> QED
  BY <1>1, <1>5 DEF q

\* The backend that answers moves from those left to those tried.
LEMMA Replied ==
    ASSUME NEW tree, TreeOK(tree), NEW r \in Requests, RequestOK(tree, r),
           r.pc = "wait", NEW a \in Answers(r.op)
    PROVE  LET q == [r EXCEPT !.pc = "up", !.answer = a,
                              !.tried = Append(@, [path |-> r.at, answer |-> a])] IN
           q \in Requests /\ RequestOK(tree, q)
<1> DEFINE entry == [path |-> r.at, answer |-> a]
           tried == Append(r.tried, entry)
           q == [r EXCEPT !.pc = "up", !.answer = a, !.tried = tried]
           n == Len(r.tried)
<1>1. a \in Everything /\ r.at \in Paths /\ n \in Nat
  <2>1. r.op \in {"complete", "judge"}
    BY DEF Requests
  <2>2. a \in Everything
    BY <2>1 DEF Everything, Answers
  <2> QED
    BY <2>2, RequestFields
<1>2. entry \in [path: Paths, answer: Everything] /\ entry.path = r.at /\ entry.answer = a
  BY <1>1
<1> HIDE DEF entry
<1>3. /\ tried \in Seq([path: Paths, answer: Everything]) /\ Len(tried) = n + 1
      /\ tried[n + 1] = entry /\ \A k \in 1..n : tried[k] = r.tried[k]
  <2> DEFINE E == [path: Paths, answer: Everything]
  <2>1. r.tried \in Seq(E) /\ entry \in E
    BY <1>2, RequestFields
  <2> HIDE DEF E
  <2>2. /\ tried \in Seq(E) /\ Len(tried) = n + 1
        /\ tried[n + 1] = entry /\ \A k \in 1..n : tried[k] = r.tried[k]
    BY <2>1, AppendProperties
  <2> QED
    BY <2>2 DEF E
<1>4. /\ q \in Requests /\ q.pc = "up" /\ q.at = r.at /\ q.waiting = r.waiting
      /\ q.tried = tried /\ q.answer = a
  BY <1>1, <1>3 DEF Requests
<1> HIDE DEF tried, q
<1>5. \A k \in 1..(n + 1) : k \in 1..n \/ k = n + 1
  BY <1>1
<1>6. /\ tree # NoClient /\ r.at \in BackendsOf(tree) /\ r.at \in DOMAIN tree
      /\ WaitingOK(tree, r) /\ TriedOK(tree, r)
  BY DEF RequestOK, UnderWay
<1>7. WaitingOK(tree, q)
  BY <1>4, <1>6 DEF WaitingOK
<1>8. TriedPaths(q) = TriedPaths(r) \cup {r.at}
  <2>1. \A k \in 1..n : tried[k].path = r.tried[k].path
    BY <1>3
  <2>2. tried[n + 1].path = r.at /\ n + 1 \in 1..(n + 1) /\ \A k \in 1..n : k \in 1..(n + 1)
    BY <1>1, <1>2, <1>3
  <2> QED
    BY <1>3, <1>4, <1>5, <2>1, <2>2 DEF TriedPaths
<1>9. r.at \in Left(tree, r)
  <2>1. Leads(r.at, r.at)
    BY <1>1, LeadsFacts
  <2> QED
    BY <1>6, <2>1 DEF Left
<1>10. ASSUME NEW b \in BackendsOf(tree)
       PROVE  b \in Left(tree, q) <=> b \in Left(tree, r) /\ b # r.at
  <2>1. Leads(r.at, b) <=> b = r.at
    <3>1. Leads(r.at, r.at)
      BY <1>1, LeadsFacts
    <3> QED
      BY <1>6, <3>1 DEF TreeOK, BackendsOf
  <2>2. \A k \in 1..Len(r.waiting) : ~Beside(r.at, r.waiting[k], r.at)
    BY DEF Beside
  <2>3. b \in Left(tree, r) <=> \/ b = r.at
                                \/ \E k \in 1..Len(r.waiting) : Beside(r.at, r.waiting[k], b)
    BY <2>1 DEF Left
  <2>4. b \in Left(tree, q) <=> \E k \in 1..Len(r.waiting) : Beside(r.at, r.waiting[k], b)
    BY <1>4 DEF Left
  <2> QED
    BY <2>2, <2>3, <2>4
<1>11. Left(tree, q) = Left(tree, r) \ {r.at}
  BY <1>10 DEF Left
<1>12. TriedPaths(r) \cup Left(tree, r) = BackendsOf(tree) /\ TriedPaths(r) \cap Left(tree, r) = {}
  BY <1>6 DEF TriedOK, UnderWay
<1>13. ASSUME NEW j \in 1..(n + 1), NEW k \in 1..(n + 1), tried[j].path = tried[k].path
       PROVE  j = k
  <2>1. \A l \in 1..n : tried[l].path = r.tried[l].path /\ tried[l].path # r.at
    <3>1. \A l \in 1..n : tried[l].path = r.tried[l].path /\ tried[l].path \in TriedPaths(r)
      BY <1>3 DEF TriedPaths
    <3> QED
      BY <1>9, <1>12, <3>1
  <2>2. tried[n + 1].path = r.at
    BY <1>2, <1>3
  <2>3. \A l, m \in 1..n : r.tried[l].path = r.tried[m].path => l = m
    BY <1>6 DEF TriedOK
  <2> QED
    BY <1>5, <1>13, <2>1, <2>2, <2>3
<1>14. \A k \in 1..n : IsBad(tried[k].answer)
  BY <1>3, <1>6 DEF TriedOK
<1>15. tried # <<>> /\ tried[Len(tried)].answer = a /\ Len(tried) - 1 = n
  BY <1>1, <1>2, <1>3
<1>16. TriedOK(tree, q)
  <2>1. /\ TriedPaths(q) \cup Left(tree, q) = BackendsOf(tree)
        /\ TriedPaths(q) \cap Left(tree, q) = {}
    BY <1>8, <1>9, <1>11, <1>12
  <2> QED
    BY <1>3, <1>4, <1>13, <1>14, <1>15, <2>1 DEF TriedOK
<1>17. RequestOK(tree, q)
  BY <1>4, <1>6, <1>7, <1>16 DEF RequestOK
<1> QED
  BY <1>4, <1>17 DEF q, tried, entry

\* A bad answer gets all the way up only when nobody waits, so nobody is left.
LEMMA Delivered ==
    ASSUME NEW tree, TreeOK(tree), NEW r \in Requests, RequestOK(tree, r),
           r.pc = "up", ~FallsOver(r)
    PROVE  LET q == [r EXCEPT !.pc = "done", !.waiting = <<>>] IN
           q \in Requests /\ RequestOK(tree, q)
<1> DEFINE q == [r EXCEPT !.pc = "done", !.waiting = <<>>]
<1>1. /\ q \in Requests /\ q.pc = "done" /\ q.at = r.at
      /\ q.tried = r.tried /\ q.answer = r.answer
  <2>1. <<>> \in Seq(Paths)
    OBVIOUS
  <2> QED
    BY <2>1 DEF Requests
<1> HIDE DEF q
<1>2. TriedPaths(q) = TriedPaths(r) /\ tree # NoClient /\ r.at \in DOMAIN tree /\ TriedOK(tree, r)
  BY <1>1 DEF TriedPaths, RequestOK
<1>3. IsBad(r.answer) => TriedPaths(r) = BackendsOf(tree)
  <2> SUFFICES ASSUME IsBad(r.answer) PROVE TriedPaths(r) = BackendsOf(tree)
    OBVIOUS
  <2>1. r.waiting = <<>>
    BY DEF FallsOver
  <2>2. Left(tree, r) = {}
    BY <2>1 DEF Left
  <2> QED
    BY <1>2, <2>2 DEF TriedOK, UnderWay
<1>4. TriedOK(tree, q)
  BY <1>1, <1>2, <1>3 DEF TriedOK, UnderWay
<1>5. RequestOK(tree, q)
  BY <1>1, <1>2, <1>4 DEF RequestOK, UnderWay
<1> QED
  BY <1>1, <1>5 DEF q

\* A new request has every backend before it.
LEMMA Called ==
    ASSUME NEW tree, TreeOK(tree), tree # NoClient,
           NEW op \in {"complete", "judge"}, NEW text \in Texts \cup {<<>>}
    PROVE  LET q == [Unasked EXCEPT !.pc = "enter", !.op = op, !.text = text] IN
           q \in Requests /\ RequestOK(tree, q)
<1> DEFINE q == [Unasked EXCEPT !.pc = "enter", !.op = op, !.text = text]
<1>1. <<>> \in Paths /\ <<>> \in Seq(Paths) /\ <<>> \in Seq([path: Paths, answer: Everything])
      /\ "none" \in Everything
  BY DEF Paths, Everything
<1>2. /\ q \in Requests /\ q.pc = "enter" /\ q.at = <<>> /\ q.waiting = <<>> /\ q.tried = <<>>
  BY <1>1 DEF Requests, Unasked
<1> HIDE DEF q
<1>3. Left(tree, q) = BackendsOf(tree)
  <2>1. \A b \in BackendsOf(tree) : b \in Paths /\ Leads(<<>>, b)
    BY LeadsFacts DEF TreeOK, BackendsOf
  <2> QED
    BY <1>2, <2>1 DEF Left
<1>4. TriedPaths(q) = {}
  BY <1>2 DEF TriedPaths
<1>5. TriedOK(tree, q) /\ WaitingOK(tree, q)
  BY <1>2, <1>3, <1>4 DEF TriedOK, WaitingOK
<1>6. RequestOK(tree, q)
  BY <1>2, <1>5 DEF RequestOK, TreeOK
<1> QED
  BY <1>2, <1>6 DEF q

LEMMA UnaskedOK ==
    ASSUME NEW tree, TreeOK(tree)
    PROVE  Unasked \in Requests /\ RequestOK(tree, Unasked)
<1>1. <<>> \in Paths /\ <<>> \in Seq(Paths) /\ <<>> \in Seq([path: Paths, answer: Everything])
      /\ "none" \in Everything
  BY DEF Paths, Everything
<1>2. /\ Unasked \in Requests /\ Unasked.pc = "idle" /\ Unasked.at = <<>> /\ Unasked.tried = <<>>
  BY <1>1 DEF Requests, Unasked
<1>3. TriedOK(tree, Unasked)
  BY <1>2 DEF TriedOK, UnderWay
<1>4. RequestOK(tree, Unasked)
  BY <1>2, <1>3 DEF RequestOK, UnderWay, TreeOK
<1> QED
  BY <1>2, <1>4

-----------------------------------------------------------------------------
(***************************************************************************)
(* The actions keep the invariant of the requests.                         *)
(***************************************************************************)

LEMMA OneMoves ==
    ASSUME RequestsOK, NEW c \in Callers, NEW q \in Requests, RequestOK(client, q),
           client' = client, request' = [request EXCEPT ![c] = q]
    PROVE  RequestsOK'
<1>1. TreeOK(client) /\ request \in [Callers -> Requests]
  BY DEF RequestsOK
<1>2. request' \in [Callers -> Requests]
  BY <1>1
<1>3. \A d \in Callers : RequestOK(client, request'[d])
  <2>1. \A d \in Callers : request'[d] = q \/ request'[d] = request[d]
    BY <1>1
  <2>2. \A d \in Callers : RequestOK(client, request[d])
    BY DEF RequestsOK
  <2> QED
    BY <2>1, <2>2
<1> QED
  BY <1>1, <1>2, <1>3 DEF RequestsOK

LEMMA CallKeepsRequests ==
    ASSUME RequestsOK, NEW c \in Callers, NEW op \in {"complete", "judge"},
           NEW text \in Texts \cup {<<>>}, Call(c, op, text)
    PROVE  RequestsOK'
<1> DEFINE q == [Unasked EXCEPT !.pc = "enter", !.op = op, !.text = text]
<1>1. client # NoClient /\ client' = client /\ request' = [request EXCEPT ![c] = q]
  BY DEF Call
<1>2. q \in Requests /\ RequestOK(client, q)
  BY <1>1, Called DEF RequestsOK
<1> HIDE DEF q
<1> QED
  BY <1>1, <1>2, OneMoves

LEMMA FirstArm ==
    ASSUME NEW r, NEW node
    PROVE  /\ first_arm(r, node).arm \in {1, 2}
           /\ \/ first_arm(r, node).hits = hits[node] /\ client[node] = "fallback"
              \/ first_arm(r, node).hits = [hits[node] EXCEPT !.deep = @ + 1]
                    /\ client[node] # "fallback"
              \/ first_arm(r, node).hits = [hits[node] EXCEPT !.light = @ + 1]
                    /\ client[node] # "fallback"
<1> DEFINE deep == r.op = "complete" /\ score(profile_text(r.text)) >= threshold
<1>1. CASE client[node] = "fallback"
  <2>1. first_arm(r, node) = [arm |-> 1, hits |-> hits[node]]
    BY <1>1 DEF first_arm
  <2> QED
    BY <1>1, <2>1
<1>2. CASE client[node] # "fallback" /\ deep
  <2>1. first_arm(r, node) = [arm |-> 2, hits |-> [hits[node] EXCEPT !.deep = @ + 1]]
    BY <1>2 DEF first_arm
  <2> QED
    BY <1>2, <2>1
<1>3. CASE client[node] # "fallback" /\ ~deep
  <2>1. first_arm(r, node) = [arm |-> 1, hits |-> [hits[node] EXCEPT !.light = @ + 1]]
    BY <1>3 DEF first_arm
  <2> QED
    BY <1>3, <2>1
<1> QED
  BY <1>1, <1>2, <1>3

LEMMA AnsweringKeepsRequests ==
    ASSUME RequestsOK, NEW c \in Callers, Answering(c)
    PROVE  RequestsOK'
<1> DEFINE r == request[c]
<1>1. TreeOK(client) /\ request \in [Callers -> Requests] /\ r \in Requests /\ RequestOK(client, r)
  BY DEF RequestsOK
<1>2. \A p \in DOMAIN client : IsBackend(p) <=> p \in BackendsOf(client)
  BY DEF IsBackend, BackendsOf
<1>3. r.pc # "idle" => r.at \in DOMAIN client
  BY <1>1 DEF RequestOK
<1>4. CASE pick_pair(c)
  <2> DEFINE i == first_arm(r, r.at).arm
             q == [r EXCEPT !.at = Append(r.at, i), !.waiting = Append(r.waiting, r.at)]
  <2>1. /\ r.pc = "enter" /\ ~IsBackend(r.at) /\ client' = client
        /\ request' = [request EXCEPT ![c] = q]
    BY <1>1, <1>4 DEF pick_pair
  <2>2. i \in {1, 2}
    BY FirstArm
  <2> HIDE DEF i
  <2>3. r.at \notin BackendsOf(client)
    BY <1>2, <1>3, <2>1
  <2>4. q \in Requests /\ RequestOK(client, q)
    BY <1>1, <2>1, <2>2, <2>3, Picked
  <2> HIDE DEF q
  <2> QED
    BY <2>1, <2>4, OneMoves
<1>5. CASE ask(c)
  <2> DEFINE q == [r EXCEPT !.pc = "wait"]
  <2>1. /\ r.pc = "enter" /\ IsBackend(r.at) /\ client' = client
        /\ request' = [request EXCEPT ![c] = q]
    BY <1>1, <1>5 DEF ask
  <2>2. r.at \in BackendsOf(client)
    BY <1>2, <1>3, <2>1
  <2>3. q \in Requests /\ RequestOK(client, q)
    BY <1>1, <2>1, <2>2, Asked
  <2> HIDE DEF q
  <2> QED
    BY <2>1, <2>3, OneMoves
<1>6. ASSUME NEW a \in Answers(r.op), answer(c, a) PROVE RequestsOK'
  <2> DEFINE q == [r EXCEPT !.pc = "up", !.answer = a,
                            !.tried = Append(@, [path |-> r.at, answer |-> a])]
  <2>1. r.pc = "wait" /\ client' = client /\ request' = [request EXCEPT ![c] = q]
    BY <1>1, <1>6 DEF answer
  <2>2. q \in Requests /\ RequestOK(client, q)
    BY <1>1, <2>1, Replied
  <2> HIDE DEF q
  <2> QED
    BY <2>1, <2>2, OneMoves
<1>7. CASE failover(c)
  <2> DEFINE node == Last(r.waiting)
             q == [r EXCEPT !.pc = "enter", !.at = Append(node, 3 - r.at[Len(node) + 1]),
                            !.waiting = Front(@)]
  <2>1. r.pc = "up" /\ FallsOver(r) /\ client' = client /\ request' = [request EXCEPT ![c] = q]
    BY <1>1, <1>7 DEF failover
  <2>2. q \in Requests /\ RequestOK(client, q)
    BY <1>1, <2>1, FailedOver
  <2> HIDE DEF q
  <2> QED
    BY <2>1, <2>2, OneMoves
<1>8. CASE deliver(c)
  <2> DEFINE q == [r EXCEPT !.pc = "done", !.waiting = <<>>]
  <2>1. r.pc = "up" /\ ~FallsOver(r) /\ client' = client /\ request' = [request EXCEPT ![c] = q]
    BY <1>1, <1>8 DEF deliver
  <2>2. q \in Requests /\ RequestOK(client, q)
    BY <1>1, <2>1, Delivered
  <2> HIDE DEF q
  <2> QED
    BY <2>1, <2>2, OneMoves
<1> QED
  BY <1>4, <1>5, <1>6, <1>7, <1>8 DEF Answering

\* What the invariant of the requests says to a caller.
LEMMA RequestsSay ==
    ASSUME RequestsOK
    PROVE  BadOnlyIfAllTried
<1>1. Backends = BackendsOf(client)
  BY DEF Backends, IsBackend, BackendsOf
<1> SUFFICES ASSUME NEW c \in Callers
             PROVE  LET r == request[c] IN
                    /\ \A i, j \in DOMAIN r.tried : r.tried[i].path = r.tried[j].path => i = j
                    /\ r.pc = "done" /\ IsBad(r.answer) =>
                          /\ {r.tried[i].path : i \in DOMAIN r.tried} = Backends
                          /\ \A i \in DOMAIN r.tried : IsBad(r.tried[i].answer)
  BY DEF BadOnlyIfAllTried
<1> DEFINE r == request[c]
           n == Len(r.tried)
<1>2. r \in Requests /\ TriedOK(client, r)
  BY DEF RequestsOK, RequestOK
<1>3. n \in Nat /\ DOMAIN r.tried = 1..n
  BY <1>2, RequestFields
<1>4. \A i \in 1..n : i = n \/ i \in 1..(n - 1)
  BY <1>3
<1> HIDE DEF r
<1>5. r.pc = "done" /\ IsBad(r.answer) => \A i \in 1..n : IsBad(r.tried[i].answer)
  BY <1>2, <1>4 DEF TriedOK
<1>6. r.pc = "done" /\ IsBad(r.answer) => {r.tried[i].path : i \in 1..n} = BackendsOf(client)
  BY <1>2 DEF TriedOK, TriedPaths
<1>7. \A i, j \in 1..n : r.tried[i].path = r.tried[j].path => i = j
  BY <1>2 DEF TriedOK
<1> QED
  BY <1>1, <1>3, <1>5, <1>6, <1>7 DEF r

-----------------------------------------------------------------------------
(***************************************************************************)
(* The actions keep the accounts.                                          *)
(***************************************************************************)

LEMMA EnteringCount ==
    ASSUME NEW req \in [Callers -> Requests], NEW c \in Callers, NEW q \in Requests, NEW path
    PROVE  LET new == [req EXCEPT ![c] = q]
               before == Cardinality(Entering(req, path))
               after == Cardinality(Entering(new, path)) IN
           /\ before \in Nat /\ after \in Nat
           /\ (Enters(req[c], path) <=> Enters(q, path)) => after = before
           /\ Enters(req[c], path) /\ ~Enters(q, path) => after = before - 1
           /\ ~Enters(req[c], path) /\ Enters(q, path) => after = before + 1
<1> DEFINE new == [req EXCEPT ![c] = q]
           S == Entering(req, path)
           T == Entering(new, path)
<1>1. new[c] = q /\ \A d \in Callers : d # c => new[d] = req[d]
  OBVIOUS
<1>2. IsFiniteSet(S) /\ IsFiniteSet(T)
  <2>1. S \in SUBSET Callers /\ T \in SUBSET Callers
    BY DEF Entering
  <2> QED
    BY <2>1, FS_Subset, ArmsAssumption
<1>3. Cardinality(S) \in Nat /\ Cardinality(T) \in Nat
  BY <1>2, FS_CardinalityType
<1> HIDE DEF new
<1>4. (Enters(req[c], path) <=> Enters(q, path)) => T = S
  BY <1>1 DEF Entering
<1>5. ASSUME Enters(req[c], path), ~Enters(q, path) PROVE Cardinality(T) = Cardinality(S) - 1
  <2>1. T = S \ {c} /\ c \in S
    BY <1>1, <1>5 DEF Entering
  <2> QED
    BY <1>2, <2>1, FS_RemoveElement
<1>6. ASSUME ~Enters(req[c], path), Enters(q, path) PROVE Cardinality(T) = Cardinality(S) + 1
  <2>1. T = S \cup {c} /\ c \notin S
    BY <1>1, <1>6 DEF Entering
  <2> QED
    BY <1>2, <2>1, FS_AddElement
<1> QED
  BY <1>3, <1>4, <1>5, <1>6 DEF new

\* Where nobody is on the way, all accounts are empty.
LEMMA FreshAccounts ==
    ASSUME NEW tree, TreeOK(tree), NEW req, \A c \in Callers : req[c].pc # "enter"
    PROVE  AccountOK(tree, Fresh(tree).hits, Fresh(tree).asked, req)
<1>1. Fresh(tree).hits = [p \in DOMAIN tree |-> NoHits] /\ Fresh(tree).asked = [p \in DOMAIN tree |-> 0]
  BY DEF Fresh
<1>2. NoHits \in Counts /\ NoHits.light = 0 /\ NoHits.deep = 0 /\ NoHits.over = 0
  BY DEF NoHits, Counts
<1>3. \A path : Cardinality(Entering(req, path)) = 0
  <2>1. \A path : Entering(req, path) = {}
    BY DEF Entering, Enters
  <2> QED
    BY <2>1, FS_EmptySet
<1>4. \A p \in DOMAIN tree \ BackendsOf(tree) : Append(p, 1) \in DOMAIN tree /\ Append(p, 2) \in DOMAIN tree
  BY DEF TreeOK
<1> QED
  BY <1>1, <1>2, <1>3, <1>4 DEF AccountOK

\* A request that enters nowhere else, and did not, changes no account.
LEMMA AccountsStay ==
    ASSUME NEW tree, TreeOK(tree), NEW h, NEW a, NEW req \in [Callers -> Requests], AccountOK(tree, h, a, req),
           NEW c \in Callers, NEW q \in Requests,
           \A node \in DOMAIN tree, i \in {1, 2} :
              Enters(req[c], Append(node, i)) <=> Enters(q, Append(node, i))
    PROVE  AccountOK(tree, h, a, [req EXCEPT ![c] = q])
<1> DEFINE new == [req EXCEPT ![c] = q]
<1>1. \A node \in DOMAIN tree, i \in {1, 2} :
         Cardinality(Entering(new, Append(node, i))) = Cardinality(Entering(req, Append(node, i)))
  BY EnteringCount
<1> HIDE DEF new
<1>2. ASSUME NEW node \in DOMAIN tree \ BackendsOf(tree)
      PROVE  /\ Cardinality(Entering(new, Append(node, 1))) = Cardinality(Entering(req, Append(node, 1)))
             /\ Cardinality(Entering(new, Append(node, 2))) = Cardinality(Entering(req, Append(node, 2)))
  BY <1>1
<1>3. AccountOK(tree, h, a, new)
  BY <1>2 DEF AccountOK
<1> QED
  BY <1>3 DEF new

\* A request that is taken in by its node is counted there, and no longer on
\* its way; one that goes on to an arm is on its way again.
LEMMA AccountsMove ==
    ASSUME NEW tree, TreeOK(tree), NEW h, NEW a, NEW req \in [Callers -> Requests], AccountOK(tree, h, a, req),
           NEW c \in Callers, NEW q \in Requests, NEW b, NEW g,
           req[c].pc = "enter", NEW at \in DOMAIN tree, req[c].at = at,
           b = [a EXCEPT ![at] = @ + 1],
           \/ at \in BackendsOf(tree) /\ q.pc # "enter" /\ g = h
           \/ /\ at \notin BackendsOf(tree) /\ q.pc = "enter"
              /\ \E i \in {1, 2} : q.at = Append(at, i)
              /\ \E counts \in Counts :
                    /\ g = [h EXCEPT ![at] = counts] /\ counts.over = h[at].over
                    /\ tree[at] = "router" => counts.light + counts.deep = h[at].light + h[at].deep + 1
    PROVE  AccountOK(tree, g, b, [req EXCEPT ![c] = q])
<1> DEFINE new == [req EXCEPT ![c] = q]
           in(r, path) == Cardinality(Entering(r, path))
<1>1. /\ h \in [DOMAIN tree -> Counts] /\ a \in [DOMAIN tree -> Nat] /\ DOMAIN tree \subseteq Paths
      /\ \A node \in DOMAIN tree \ BackendsOf(tree) :
            Append(node, 1) \in DOMAIN tree /\ Append(node, 2) \in DOMAIN tree
  BY DEF AccountOK, TreeOK
<1>2. g \in [DOMAIN tree -> Counts] /\ b \in [DOMAIN tree -> Nat]
  BY <1>1
<1>3. \A p \in DOMAIN tree : b[p] = IF p = at THEN a[p] + 1 ELSE a[p]
  BY <1>1
<1>4. ASSUME NEW p \in Paths
      PROVE  /\ in(req, p) \in Nat /\ in(new, p) \in Nat
             /\ p # at => in(new, p) = in(req, p) + (IF Enters(q, p) THEN 1 ELSE 0)
             /\ p = at => in(new, p) = in(req, p) - 1
  <2>1. Enters(req[c], p) <=> p = at
    BY DEF Enters
  <2>2. ~Enters(q, at)
    <3>1. at \in Paths
      BY <1>1
    <3>2. \A i \in {1, 2} : Append(at, i) # at
      BY <3>1, PathFacts
    <3> QED
      BY <3>2 DEF Enters
  <2>3. /\ in(req, p) \in Nat /\ in(new, p) \in Nat
        /\ (Enters(req[c], p) <=> Enters(q, p)) => in(new, p) = in(req, p)
        /\ Enters(req[c], p) /\ ~Enters(q, p) => in(new, p) = in(req, p) - 1
        /\ ~Enters(req[c], p) /\ Enters(q, p) => in(new, p) = in(req, p) + 1
    BY EnteringCount
  <2> HIDE DEF new, in
  <2>4. CASE p = at
    BY <2>1, <2>2, <2>3, <2>4
  <2>5. CASE p # at
    BY <2>1, <2>3, <2>5
  <2> QED
    BY <2>3, <2>4, <2>5
<1> HIDE DEF new, in
<1>5. ASSUME NEW node \in DOMAIN tree \ BackendsOf(tree)
      PROVE  /\ (b[Append(node, 1)] + in(new, Append(node, 1))) + (b[Append(node, 2)] + in(new, Append(node, 2)))
                   = b[node] + g[node].over
             /\ tree[node] = "router" => g[node].light + g[node].deep = b[node]
  <2> DEFINE p1 == Append(node, 1)
             p2 == Append(node, 2)
  <2>1. /\ node \in Paths /\ p1 \in DOMAIN tree /\ p2 \in DOMAIN tree /\ p1 \in Paths /\ p2 \in Paths
        /\ p1 # p2 /\ p1 # node /\ p2 # node
    <3>1. node \in Paths /\ p1 \in DOMAIN tree /\ p2 \in DOMAIN tree
      BY <1>1
    <3>2. p1 # node /\ p2 # node
      BY <3>1, PathFacts
    <3>3. p1 # p2
      <4>1. 1 \in {1, 2} /\ 2 \in {1, 2} /\ 1 # 2
        OBVIOUS
      <4> QED
        BY <3>1, <4>1, AppendOne
    <3> QED
      BY <1>1, <3>1, <3>2, <3>3
  <2>2. /\ (a[p1] + in(req, p1)) + (a[p2] + in(req, p2)) = a[node] + h[node].over
        /\ tree[node] = "router" => h[node].light + h[node].deep = a[node]
    BY DEF AccountOK, in
  <2>3. /\ a[p1] \in Nat /\ a[p2] \in Nat /\ a[node] \in Nat /\ in(req, p1) \in Nat /\ in(req, p2) \in Nat
        /\ h[node] \in Counts /\ h[node].light \in Nat /\ h[node].deep \in Nat /\ h[node].over \in Nat
    BY <1>1, <1>4, <2>1 DEF Counts
  <2> HIDE DEF p1, p2
  <2>4. \A p \in {p1, p2} : b[p] + in(new, p) = a[p] + in(req, p) + (IF Enters(q, p) THEN 1 ELSE 0)
    <3> SUFFICES ASSUME NEW p \in {p1, p2}
                 PROVE  b[p] + in(new, p) = a[p] + in(req, p) + (IF Enters(q, p) THEN 1 ELSE 0)
      OBVIOUS
    <3>1. p \in DOMAIN tree /\ p \in Paths /\ a[p] \in Nat /\ in(req, p) \in Nat
      BY <2>1, <2>3
    <3>2. CASE p = at
      <4>1. ~Enters(q, p)
        <5>1. \A i \in {1, 2} : Append(at, i) # at
          BY <3>1, <3>2, PathFacts
        <5> QED
          BY <3>2, <5>1 DEF Enters
      <4> QED
        BY <1>3, <1>4, <3>1, <3>2, <4>1
    <3>3. CASE p # at
      BY <1>3, <1>4, <3>1, <3>3
    <3> QED
      BY <3>2, <3>3
  <2>5. CASE node = at
    <3>1. at \notin BackendsOf(tree)
      BY <2>5
    <3>2. PICK i \in {1, 2} : q.at = Append(at, i) /\ q.pc = "enter"
      BY <3>1
    <3>3. Enters(q, p1) <=> i = 1
      BY <2>1, <2>5, <3>2 DEF Enters, p1, p2
    <3>4. Enters(q, p2) <=> i = 2
      BY <2>1, <2>5, <3>2 DEF Enters, p1, p2
    <3>5. (b[p1] + in(new, p1)) + (b[p2] + in(new, p2)) = (a[p1] + in(req, p1)) + (a[p2] + in(req, p2)) + 1
      <4>1. CASE i = 1
        BY <2>3, <2>4, <3>3, <3>4, <4>1
      <4>2. CASE i = 2
        BY <2>3, <2>4, <3>3, <3>4, <4>2
      <4> QED
        BY <4>1, <4>2
    <3>6. PICK counts \in Counts :
             /\ g = [h EXCEPT ![at] = counts] /\ counts.over = h[at].over
             /\ tree[at] = "router" => counts.light + counts.deep = h[at].light + h[at].deep + 1
      BY <3>1
    <3>7. g[node] = counts /\ b[node] = a[node] + 1
      BY <1>1, <1>3, <2>5, <3>6
    <3>8. b[node] + g[node].over = (a[node] + h[node].over) + 1
      BY <2>3, <2>5, <3>6, <3>7
    <3>9. tree[node] = "router" => g[node].light + g[node].deep = b[node]
      BY <2>2, <2>5, <3>6, <3>7
    <3> QED
      BY <2>2, <3>5, <3>8, <3>9 DEF p1, p2
  <2>6. CASE node # at
    <3>1. ~Enters(q, p1) /\ ~Enters(q, p2)
      <4>1. \A i, j \in {1, 2} : Append(at, i) # Append(node, j)
        BY <1>1, <2>1, <2>6, AppendOne
      <4> QED
        BY <4>1 DEF Enters, p1, p2
    <3>2. b[node] = a[node] /\ g[node] = h[node]
      BY <1>1, <1>3, <2>6
    <3> QED
      BY <2>2, <2>3, <2>4, <3>1, <3>2 DEF p1, p2
  <2> QED
    BY <2>5, <2>6
<1>6. AccountOK(tree, g, b, new)
  BY <1>2, <1>5 DEF AccountOK, in
<1> QED
  BY <1>6 DEF new

\* A node that goes over to its other arm counts it.
LEMMA AccountsOver ==
    ASSUME NEW tree, TreeOK(tree), NEW h, NEW a, NEW req \in [Callers -> Requests], AccountOK(tree, h, a, req),
           NEW c \in Callers, NEW q \in Requests, NEW g,
           req[c].pc # "enter", q.pc = "enter",
           NEW at \in DOMAIN tree \ BackendsOf(tree), \E i \in {1, 2} : q.at = Append(at, i),
           g = [h EXCEPT ![at] = [h[at] EXCEPT !.over = @ + 1]]
    PROVE  AccountOK(tree, g, a, [req EXCEPT ![c] = q])
<1> DEFINE new == [req EXCEPT ![c] = q]
           in(r, path) == Cardinality(Entering(r, path))
           up(path) == IF Enters(q, path) THEN 1 ELSE 0
<1>1. /\ h \in [DOMAIN tree -> Counts] /\ a \in [DOMAIN tree -> Nat] /\ DOMAIN tree \subseteq Paths
      /\ \A node \in DOMAIN tree \ BackendsOf(tree) :
            Append(node, 1) \in DOMAIN tree /\ Append(node, 2) \in DOMAIN tree
  BY DEF AccountOK, TreeOK
<1>2. \A p : h[p] \in Counts => /\ [h[p] EXCEPT !.over = @ + 1] \in Counts
                                /\ [h[p] EXCEPT !.over = @ + 1].over = h[p].over + 1
                                /\ [h[p] EXCEPT !.over = @ + 1].light = h[p].light
                                /\ [h[p] EXCEPT !.over = @ + 1].deep = h[p].deep
                                /\ h[p].over \in Nat
  BY DEF Counts
<1>3. g \in [DOMAIN tree -> Counts]
  BY <1>1, <1>2
<1>4. ASSUME NEW p PROVE in(req, p) \in Nat /\ in(new, p) = in(req, p) + up(p)
  <2>1. ~Enters(req[c], p)
    BY DEF Enters
  <2>2. /\ in(req, p) \in Nat /\ in(new, p) \in Nat
        /\ ~Enters(q, p) => in(new, p) = in(req, p)
        /\ Enters(q, p) => in(new, p) = in(req, p) + 1
    BY <2>1, EnteringCount
  <2> HIDE DEF in, new
  <2> QED
    BY <2>2
<1> PICK i \in {1, 2} : q.at = Append(at, i)
  OBVIOUS
<1> HIDE DEF new, in
<1>5. ASSUME NEW node \in DOMAIN tree \ BackendsOf(tree)
      PROVE  /\ (a[Append(node, 1)] + in(new, Append(node, 1))) + (a[Append(node, 2)] + in(new, Append(node, 2)))
                   = a[node] + g[node].over
             /\ tree[node] = "router" => g[node].light + g[node].deep = a[node]
  <2> DEFINE p1 == Append(node, 1)
             p2 == Append(node, 2)
  <2>1. /\ (a[p1] + in(req, p1)) + (a[p2] + in(req, p2)) = a[node] + h[node].over
        /\ tree[node] = "router" => h[node].light + h[node].deep = a[node]
    BY DEF AccountOK, in
  <2>2. /\ a[p1] \in Nat /\ a[p2] \in Nat /\ a[node] \in Nat /\ in(req, p1) \in Nat /\ in(req, p2) \in Nat
        /\ h[node] \in Counts /\ h[node].over \in Nat
    BY <1>1, <1>2, <1>4
  <2>3. node \in Paths /\ at \in Paths
    BY <1>1
  <2>4. \A j \in {1, 2} : Enters(q, Append(node, j)) <=> node = at /\ i = j
    <3>1. \A j \in {1, 2} : Append(at, i) = Append(node, j) => node = at /\ i = j
      BY <2>3, AppendOne
    <3> QED
      BY <3>1 DEF Enters
  <2>5. up(p1) + up(p2) = IF node = at THEN 1 ELSE 0
    <3>1. (Enters(q, p1) <=> node = at /\ i = 1) /\ (Enters(q, p2) <=> node = at /\ i = 2)
      BY <2>4
    <3> HIDE DEF p1, p2
    <3> QED
      BY <3>1
  <2>6. up(p1) \in Nat /\ up(p2) \in Nat
    OBVIOUS
  <2> HIDE DEF p1, p2, up
  <2>7. in(new, p1) = in(req, p1) + up(p1) /\ in(new, p2) = in(req, p2) + up(p2)
    BY <1>4
  <2>8. /\ g[node].light = h[node].light /\ g[node].deep = h[node].deep
        /\ g[node].over = h[node].over + (IF node = at THEN 1 ELSE 0)
    <3>1. CASE node = at
      BY <1>1, <1>2, <2>2, <3>1
    <3>2. CASE node # at
      BY <1>1, <2>2, <3>2
    <3> QED
      BY <3>1, <3>2
  <2>9. (a[p1] + in(new, p1)) + (a[p2] + in(new, p2)) = a[node] + g[node].over
    <3>1. (a[p1] + in(new, p1)) + (a[p2] + in(new, p2))
             = (a[p1] + in(req, p1)) + (a[p2] + in(req, p2)) + (up(p1) + up(p2))
      BY <2>2, <2>6, <2>7
    <3>2. CASE node = at
      <4>1. up(p1) + up(p2) = 1 /\ g[node].over = h[node].over + 1
        BY <2>5, <2>8, <3>2
      <4> DEFINE x == (a[p1] + in(req, p1)) + (a[p2] + in(req, p2))
                 y == (a[p1] + in(new, p1)) + (a[p2] + in(new, p2))
      <4>2. x \in Nat /\ y = x + (up(p1) + up(p2)) /\ x = a[node] + h[node].over
        BY <2>1, <2>2, <3>1
      <4> HIDE DEF x, y
      <4>3. y = a[node] + g[node].over
        BY <2>2, <4>1, <4>2
      <4> QED
        BY <4>3 DEF y
    <3>3. CASE node # at
      <4>1. up(p1) + up(p2) = 0 /\ g[node].over = h[node].over
        BY <2>2, <2>5, <2>8, <3>3
      <4> DEFINE x == (a[p1] + in(req, p1)) + (a[p2] + in(req, p2))
                 y == (a[p1] + in(new, p1)) + (a[p2] + in(new, p2))
      <4>2. x \in Nat /\ y = x + (up(p1) + up(p2)) /\ x = a[node] + h[node].over
        BY <2>1, <2>2, <3>1
      <4> HIDE DEF x, y
      <4>3. y = a[node] + g[node].over
        BY <2>2, <4>1, <4>2
      <4> QED
        BY <4>3 DEF y
    <3> QED
      BY <3>2, <3>3
  <2> QED
    BY <2>1, <2>8, <2>9 DEF p1, p2
<1>6. AccountOK(tree, g, a, new)
  BY <1>1, <1>3, <1>5 DEF AccountOK, in
<1> QED
  BY <1>6 DEF new

LEMMA CallKeepsCounters ==
    ASSUME RequestsOK, CountersOK, NEW c \in Callers, NEW op \in {"complete", "judge"},
           NEW text \in Texts \cup {<<>>}, Call(c, op, text)
    PROVE  CountersOK'
<1> DEFINE q == [Unasked EXCEPT !.pc = "enter", !.op = op, !.text = text]
<1>1. /\ client # NoClient /\ client' = client /\ request' = [request EXCEPT ![c] = q]
      /\ request[c].pc \in {"idle", "done"} /\ hits' = hits /\ asked' = asked
  BY DEF Call, Settled
<1>2. q \in Requests /\ q.at = <<>>
  BY <1>1, Called DEF RequestsOK, Unasked
<1> HIDE DEF q
<1>3. \A node \in DOMAIN client, i \in {1, 2} :
         Enters(request[c], Append(node, i)) <=> Enters(q, Append(node, i))
  <2>1. \A node \in DOMAIN client, i \in {1, 2} : Append(node, i) # <<>>
    BY PathFacts DEF RequestsOK, TreeOK
  <2> QED
    BY <1>1, <1>2, <2>1 DEF Enters
<1>4. AccountOK(client, hits, asked, [request EXCEPT ![c] = q])
  BY <1>2, <1>3, AccountsStay DEF RequestsOK, CountersOK
<1> QED
  BY <1>1, <1>4 DEF CountersOK

LEMMA AnsweringKeepsCounters ==
    ASSUME RequestsOK, CountersOK, NEW c \in Callers, Answering(c)
    PROVE  CountersOK'
<1> DEFINE r == request[c]
<1>1. /\ TreeOK(client) /\ request \in [Callers -> Requests] /\ r \in Requests /\ RequestOK(client, r)
      /\ AccountOK(client, hits, asked, request)
      /\ hits \in [DOMAIN client -> Counts] /\ asked \in [DOMAIN client -> Nat]
  BY DEF RequestsOK, CountersOK, AccountOK
<1>2. \A p \in DOMAIN client : IsBackend(p) <=> p \in BackendsOf(client)
  BY DEF IsBackend, BackendsOf
<1>3. r.pc # "idle" => r.at \in DOMAIN client
  BY <1>1 DEF RequestOK
<1>4. request' \in [Callers -> Requests]
  BY AnsweringKeepsRequests DEF RequestsOK
<1>5. CASE pick_pair(c)
  <2> DEFINE first == first_arm(r, r.at)
             q == [r EXCEPT !.at = Append(r.at, first.arm), !.waiting = Append(r.waiting, r.at)]
  <2>1. /\ r.pc = "enter" /\ ~IsBackend(r.at) /\ client' = client
        /\ request' = [request EXCEPT ![c] = q]
        /\ asked' = [asked EXCEPT ![r.at] = @ + 1] /\ hits' = [hits EXCEPT ![r.at] = first.hits]
    BY <1>1, <1>5 DEF pick_pair
  <2>2. first.arm \in {1, 2}
    BY FirstArm
  <2>3. /\ r.at \in DOMAIN client /\ r.at \notin BackendsOf(client)
    BY <1>2, <1>3, <2>1
  <2>4. hits[r.at] \in Counts
    BY <1>1, <2>3
  <2>5. /\ first.hits \in Counts /\ first.hits.over = hits[r.at].over
        /\ client[r.at] = "router" => first.hits.light + first.hits.deep = hits[r.at].light + hits[r.at].deep + 1
    <3> DEFINE old == hits[r.at]
    <3>1. \/ first.hits = old /\ client[r.at] = "fallback"
          \/ first.hits = [old EXCEPT !.deep = @ + 1]
          \/ first.hits = [old EXCEPT !.light = @ + 1]
      BY FirstArm
    <3> HIDE DEF first, old
    <3>2. old \in Counts
      BY <2>4 DEF old
    <3>3. CASE first.hits = old /\ client[r.at] = "fallback"
      BY <3>2, <3>3 DEF old
    <3>4. CASE first.hits = [old EXCEPT !.deep = @ + 1]
      BY <3>2, <3>4 DEF Counts, old
    <3>5. CASE first.hits = [old EXCEPT !.light = @ + 1]
      BY <3>2, <3>5 DEF Counts, old
    <3> QED
      BY <3>1, <3>3, <3>4, <3>5
  <2>6. q.at = Append(r.at, first.arm) /\ q.pc = "enter"
    BY <1>1, <2>1 DEF Requests
  <2>7. q \in Requests
    BY <1>4, <2>1
  <2> HIDE DEF q, first
  <2>8. AccountOK(client, hits', asked', [request EXCEPT ![c] = q])
    BY <1>1, <2>1, <2>2, <2>3, <2>5, <2>6, <2>7, AccountsMove
  <2> QED
    BY <2>1, <2>8 DEF CountersOK
<1>6. CASE ask(c)
  <2> DEFINE q == [r EXCEPT !.pc = "wait"]
  <2>1. /\ r.pc = "enter" /\ IsBackend(r.at) /\ client' = client /\ hits' = hits
        /\ request' = [request EXCEPT ![c] = q]
        /\ asked' = [asked EXCEPT ![r.at] = @ + 1]
    BY <1>1, <1>6 DEF ask
  <2>2. r.at \in BackendsOf(client) /\ r.at \in DOMAIN client
    BY <1>2, <1>3, <2>1
  <2>3. q \in Requests /\ q.pc = "wait"
    BY <1>1 DEF Requests
  <2> HIDE DEF q
  <2>4. AccountOK(client, hits', asked', [request EXCEPT ![c] = q])
    BY <1>1, <2>1, <2>2, <2>3, AccountsMove
  <2> QED
    BY <2>1, <2>4 DEF CountersOK
<1>7. CASE failover(c)
  <2> DEFINE node == Last(r.waiting)
             i == 3 - r.at[Len(node) + 1]
             q == [r EXCEPT !.pc = "enter", !.at = Append(node, i), !.waiting = Front(@)]
  <2>1. /\ r.pc = "up" /\ FallsOver(r) /\ client' = client /\ asked' = asked
        /\ request' = [request EXCEPT ![c] = q] /\ hits' = [hits EXCEPT ![node].over = @ + 1]
    BY <1>1, <1>7 DEF failover
  <2>2. q \in Requests /\ node \in DOMAIN client \ BackendsOf(client) /\ i \in {1, 2}
    BY <1>1, <2>1, FailedOver
  <2>3. q.pc = "enter" /\ q.at = Append(node, i)
    BY <1>1 DEF Requests
  <2> HIDE DEF q, i, node
  <2>4. hits' = [hits EXCEPT ![node] = [hits[node] EXCEPT !.over = @ + 1]]
    BY <1>1, <2>1, <2>2
  <2>5. AccountOK(client, hits', asked, [request EXCEPT ![c] = q])
    BY <1>1, <2>1, <2>2, <2>3, <2>4, AccountsOver
  <2> QED
    BY <2>1, <2>5 DEF CountersOK
<1>8. ASSUME NEW q \in Requests, r.pc # "enter", q.pc # "enter", client' = client,
             hits' = hits, asked' = asked, request' = [request EXCEPT ![c] = q]
      PROVE  CountersOK'
  <2>1. AccountOK(client, hits, asked, [request EXCEPT ![c] = q])
    BY <1>1, <1>8, AccountsStay DEF Enters
  <2> QED
    BY <1>8, <2>1 DEF CountersOK
<1>9. ASSUME NEW a \in Answers(r.op), answer(c, a) PROVE CountersOK'
  <2> DEFINE q == [r EXCEPT !.pc = "up", !.answer = a,
                            !.tried = Append(@, [path |-> r.at, answer |-> a])]
  <2>1. /\ r.pc = "wait" /\ client' = client /\ hits' = hits /\ asked' = asked
        /\ request' = [request EXCEPT ![c] = q]
    BY <1>1, <1>9 DEF answer
  <2>2. q \in Requests /\ q.pc = "up"
    BY <1>1, <1>4, <2>1 DEF Requests
  <2> HIDE DEF q
  <2> QED
    BY <1>8, <2>1, <2>2
<1>10. CASE deliver(c)
  <2> DEFINE q == [r EXCEPT !.pc = "done", !.waiting = <<>>]
  <2>1. /\ r.pc = "up" /\ client' = client /\ hits' = hits /\ asked' = asked
        /\ request' = [request EXCEPT ![c] = q]
    BY <1>1, <1>10 DEF deliver
  <2>2. q \in Requests /\ q.pc = "done"
    BY <1>1, <1>4, <2>1 DEF Requests
  <2> HIDE DEF q
  <2> QED
    BY <1>8, <2>1, <2>2
<1> QED
  BY <1>5, <1>6, <1>7, <1>9, <1>10 DEF Answering

\* What the accounts say to whoever reads the counters.
LEMMA CountersSay ==
    ASSUME CountersOK
    PROVE  CallsAccounted
<1>1. Backends = BackendsOf(client)
  BY DEF Backends, IsBackend, BackendsOf
<1>2. \A path : {c \in Callers : request[c].pc = "enter" /\ request[c].at = path} = Entering(request, path)
  BY DEF Entering, Enters
<1> QED
  BY <1>1, <1>2 DEF CallsAccounted, CountersOK, AccountOK

LEMMA ArmsTyped ==
    ASSUME RequestsOK, CountersOK
    PROVE  ArmsTypeOK
<1>1. \A c \in Callers : request[c] \in Requests /\ RequestOK(client, request[c])
  BY DEF RequestsOK
<1>2. \A c \in Callers : /\ request[c].pc \in {"idle", "enter", "wait", "up", "done"}
                         /\ request[c].answer \in Everything
                         /\ client # NoClient => request[c].at \in DOMAIN client
  BY <1>1 DEF Requests, RequestOK
<1> QED
  BY <1>2 DEF ArmsTypeOK, CountersOK, AccountOK, Everything

-----------------------------------------------------------------------------
(***************************************************************************)
(* The command, over its store.                                            *)
(***************************************************************************)

Tree == INSTANCE SledGraphStore_proofs WITH
    Clients <- {Batch},
    Opened <- {}, OpenedSources <- Docs, SourceSets <- SUBSET Docs,
    Edges <- [src: Entities, dst: Entities, rel: Relations, provenance: Docs],
    Fails <- TRUE, MaxCalls <- 100

-----------------------------------------------------------------------------
(***************************************************************************)
(* The store under a batch.                                                *)
(***************************************************************************)

EdgeRows == [src: Entities, dst: Entities, rel: Relations, provenance: Docs]

UpsertPcs == {"idle", "put_docs", "put_entity", "check_dst", "read_meta", "put_edge", "put_meta"}

\* No command of a batch restores, so no tree is ever torn.
StoreInv ==
    /\ Tree!IInv
    /\ ~db.torn /\ ~disk.torn
    /\ call[Batch].pc \in UpsertPcs

Ents(tree) == Store!Table(tree.rows, Store!K_ENT)
Links(tree) == Store!Table(tree.rows, Store!K_OUT)

\* The edges that are numbered: the counter is ahead of them.
Numb(tree) == {k \in Links(tree) : k[3] < tree.meta.next_edge_seq}

SameLinks(old, new) ==
    /\ Links(new) = Links(old) /\ Numb(new) = Numb(old)
    /\ \A k \in Links(old) : new.rows[k] = old.rows[k]

\* The entity has the document in both places a reader looks.
Sourced(tree, e, d) ==
    /\ Store!ent_key(e) \in DOMAIN tree.rows /\ d \in tree.rows[Store!ent_key(e)]
    /\ Store!doc_key(e) \in DOMAIN tree.rows /\ d \in tree.rows[Store!doc_key(e)]

LinkedIn(tree, edge) == \E a \in tree.acked : a[2] = edge

\* Nothing that was stored is lost.
Grows(old, new) ==
    /\ \A e, d : Sourced(old, e, d) => Sourced(new, e, d)
    /\ old.acked \subseteq new.acked

\* The call is an upsert of this entity with this document, or of this edge.
Upserting(r, tree, e, d) ==
    /\ r.pc \in {"put_docs", "put_entity"}
    /\ r.id = e /\ d \in r.sources
    /\ Store!ent_key(e) \in DOMAIN tree.rows => tree.rows[Store!ent_key(e)] \subseteq r.sources

Linking(r, edge) ==
    /\ r.pc \in {"check_dst", "read_meta", "put_edge", "put_meta"}
    /\ r.edge = edge

Countable(tree) == IsFiniteSet(Ents(tree)) /\ IsFiniteSet(Links(tree))

\* The relation a triple is stored with.
Stored(rel) == IF rel \in Vocabulary THEN rel ELSE related_to

\* An end, or the edge, of some triple that the sanitizer lets through.
CleanEntity(e) == \E raw \in Unobjectionable : e \in {IdOf[raw.src], IdOf[raw.dst]}

CleanEdge(edge) ==
    \E raw \in Unobjectionable :
        /\ edge.src = IdOf[raw.src] /\ edge.dst = IdOf[raw.dst]
        /\ edge.rel = Stored(raw.rel)

CleanTree(tree) ==
    /\ \A k \in Ents(tree) : CleanEntity(k[2])
    /\ \A k \in Links(tree) : CleanEdge(tree.rows[k])

-----------------------------------------------------------------------------
(***************************************************************************)
(* Where the command is, and what it knows of the store.                   *)
(***************************************************************************)

Fields == {"pc", "rest", "doc", "triples", "ids", "local", "created", "report", "seen", "ok",
           "totals", "failures", "base", "named", "linked", "landed"}

Reports == [entities: Nat, edges: Nat, skipped: Nat]

Sizes == [entities: Nat, edges: Nat, numbered: Nat]

Failures == [stage: {"parse", "llm", "apply"}, tried: Nat]

\* At work on a document, and in apply.
Applying == {"resolve", "upsert", "link", "upsert_edge"}
Working == {"step", "asked"} \cup Applying

BatchTyped(b) ==
    /\ DOMAIN b = Fields
    /\ b.pc \in Ended \cup {"read"} \cup Working
    /\ b.rest \in Seq(Lines) /\ b.triples \in Seq(RawTriples)
    /\ b.ids \in Seq(Entities) /\ Len(b.ids) <= 2
    /\ b.local \subseteq Names /\ b.created \in BOOLEAN
    /\ b.report \in Reports /\ b.totals \in Reports
    /\ b.seen \in Nat /\ b.ok \in Nat /\ b.failures \in Seq(Failures)
    /\ b.base \in Sizes /\ b.base.numbered <= b.base.edges
    /\ DOMAIN b.landed = {"named", "linked"}

\* An end of the triple at the head.
EndAt(b, i) == IF i = 1 THEN Head(b.triples).src ELSE Head(b.triples).dst

\* What it has of the current line; between lines, nothing.
Positioned(b) ==
    /\ b.pc \in Working => b.doc \in Docs
    /\ b.pc \in Applying =>
          b.triples # <<>> /\ \A i \in 1..Len(b.ids) : b.ids[i] = IdOf[EndAt(b, i)]
    /\ b.pc \in {"resolve", "upsert"} => Len(b.ids) <= 1
    /\ b.pc \in {"link", "upsert_edge"} => Len(b.ids) = 2
    /\ b.created => b.pc = "upsert"
    /\ b.pc \notin Applying => b.report = NoReport /\ b.local = {} /\ b.named = {} /\ b.linked = {}

\* What the current line and the lines before it stored.
Noted(b, tree) ==
    /\ \A e \in b.named : Sourced(tree, e, b.doc)
    /\ \A edge \in b.linked : LinkedIn(tree, edge)
    /\ \A item \in b.landed.named : Sourced(tree, item[1], item[2])
    /\ \A edge \in b.landed.linked : LinkedIn(tree, edge)
    /\ b.pc \in Applying =>
          /\ \A i \in 1..Len(b.ids) : b.ids[i] \in b.named
          /\ \A name \in b.local : IdOf[name] \in b.named

NameAt(b) == IF b.ids = <<>> THEN Head(b.triples).src ELSE Head(b.triples).dst
EdgeAt(b) == [src |-> b.ids[1], dst |-> b.ids[2], rel |-> Head(b.triples).rel,
              provenance |-> b.doc]

\* The store is called only for the entity or the edge the command is at, and
\* the call does not return before that is stored.
Matches(b, r, tree) ==
    LET id == IdOf[NameAt(b)] IN
    /\ b.pc \notin {"upsert", "upsert_edge"} => r.pc = "idle"
    /\ b.pc = "upsert" =>
          \/ r.pc = "idle" /\ Sourced(tree, id, b.doc)
          \/ /\ Upserting(r, tree, id, b.doc)
             /\ b.created <=> Store!ent_key(id) \notin DOMAIN tree.rows
    /\ b.pc = "upsert_edge" =>
          \/ r.pc = "idle" /\ LinkedIn(tree, EdgeAt(b))
          \/ Linking(r, EdgeAt(b))

\* The lines read so far are a first part of the file, and those that are not
\* blank are seen.
ReadSo(rest, seen, file) ==
    \E n \in 0..Len(file) :
        /\ Len(rest) = Len(file) - n
        /\ \A i \in 1..Len(rest) : rest[i] = file[n + i]
        /\ seen = Cardinality({i \in 1..n : file[i] # "blank"})

\* Every line seen is ok, failed or pending.
Counted(b, file, pending) ==
    /\ ReadSo(b.rest, b.seen, file)
    /\ b.seen = b.ok + Len(b.failures) + pending

Pending(b) == IF b.pc \in Working THEN 1 ELSE 0

Partial(b) == \E i \in 1..Len(b.failures) : b.failures[i].stage = "apply"

\* With so many edges acknowledged since the command began, the tree has at
\* least as many more that are numbered.  The first one that is acknowledged
\* numbers the edges that were not, and may replace one of them.
Grown(base, tree, acks) ==
    /\ Cardinality(Links(tree)) >= base.edges
    /\ Cardinality(Numb(tree)) >= base.numbered + acks
    /\ acks >= 1 => Cardinality(Numb(tree)) >= base.edges + acks - 1

\* The store holds what was there when the command began, what the totals and
\* the report of the current line say, and so many more entities and edges.
\* Without a line that failed in apply it holds nothing else, but for an edge
\* per triple that was skipped and one that the call under way has written.
Balance(b, tree, entities, edges, cut) ==
    LET n == b.base.entities + b.totals.entities + b.report.entities + entities
        acks == b.totals.edges + b.report.edges + edges
        skipped == b.totals.skipped + b.report.skipped IN
    /\ Cardinality(Ents(tree)) >= n /\ Grown(b.base, tree, acks)
    /\ ~Partial(b) => /\ Cardinality(Ents(tree)) = n
                      /\ Cardinality(Links(tree)) <= b.base.edges + acks + skipped + cut

\* What a call that has just returned has added is not reported yet.
Accounted(b, r, tree) ==
    Balance(b, tree, IF b.created /\ r.pc = "idle" THEN 1 ELSE 0,
                     IF b.pc = "upsert_edge" /\ r.pc = "idle" THEN 1 ELSE 0,
                     IF b.pc = "upsert_edge" /\ r.pc = "put_meta" THEN 1 ELSE 0)

CleanTriple(t) ==
    \E raw \in Unobjectionable :
        t.src = raw.src /\ t.dst = raw.dst /\ t.rel = Stored(raw.rel)

CleanTriples(triples) == \A i \in 1..Len(triples) : CleanTriple(triples[i])

BatchInv(b, command, file, r, tree) ==
    /\ BatchTyped(b) /\ Positioned(b) /\ Noted(b, tree) /\ Matches(b, r, tree)
    /\ command = "ingest-batch" /\ b.pc # "dead" => Counted(b, file, Pending(b))
    /\ command = "ingest-batch" /\ b.pc = "done" => b.rest = <<>>
    /\ command # "library" /\ b.pc \notin {"error", "dead"} => Accounted(b, r, tree)
    /\ command # "ingest-stub" => CleanTriples(b.triples)

IngestInv ==
    /\ ArmsInv /\ StoreInv
    /\ program \in Programs
    /\ Countable(db) /\ Countable(disk)
    /\ program.command # "ingest-stub" => CleanTree(db) /\ CleanTree(disk)
    /\ BatchInv(batch, program.command, program.file, call[Batch], db)

-----------------------------------------------------------------------------
LEMMA Bounds == Tree!SledAssumption /\ Tree!Alone
BY BatchAssumption DEF Tree!SledAssumption, Tree!Alone

LEMMA SameKeys ==
    /\ \A e : Store!ent_key(e) = Tree!ent_key(e) /\ Store!doc_key(e) = Tree!doc_key(e)
    /\ \A e, n : Store!out_key(e, n) = Tree!out_key(e, n)
    /\ \A rows, t : Store!Table(rows, t) = Tree!Table(rows, t)
    /\ Store!K_ENT = Tree!K_ENT /\ Store!K_OUT = Tree!K_OUT /\ Store!K_DOC = Tree!K_DOC
    /\ Store!Idle = Tree!Idle
    /\ \A f, k, v : Store!Put(f, k, v) = Tree!Put(f, k, v)
    /\ \A f, k, d : Store!GetOr(f, k, d) = Tree!GetOr(f, k, d)
BY DEF Store!ent_key, Tree!ent_key, Store!doc_key, Tree!doc_key, Store!out_key, Tree!out_key,
   Store!Table, Tree!Table, Store!K_ENT, Tree!K_ENT, Store!K_OUT, Tree!K_OUT, Store!K_DOC, Tree!K_DOC,
   Store!Idle, Tree!Idle, Store!Put, Tree!Put, Store!GetOr, Tree!GetOr

\* The steps of the store that a batch takes are steps of the tree.
LEMMA StoreSteps ==
    /\ \A e, sources : Store!upsert_entity(Batch, e, sources) <=> Tree!upsert_entity(Batch, e, sources)
    /\ \A edge : Store!upsert_edge(Batch, edge) <=> Tree!upsert_edge(Batch, edge)
    /\ Store!put_docs(Batch) <=> Tree!put_docs(Batch)
    /\ Store!put_entity(Batch) <=> Tree!put_entity(Batch)
    /\ Store!check_dst(Batch) <=> Tree!check_dst(Batch)
    /\ Store!read_meta(Batch) <=> Tree!read_meta(Batch)
    /\ Store!put_edge(Batch) <=> Tree!put_edge(Batch)
    /\ Store!put_meta(Batch) <=> Tree!put_meta(Batch)
    /\ Store!fails(Batch) <=> Tree!fails(Batch)
    /\ Store!crash <=> Tree!crash
    /\ Store!flush <=> Tree!flush
    /\ Store!Init <=> Tree!Init
<1>1. \A e, sources : Store!upsert_entity(Batch, e, sources) <=> Tree!upsert_entity(Batch, e, sources)
  BY SameKeys DEF Store!upsert_entity, Tree!upsert_entity, Store!Upsert, Tree!Upsert, Store!Start, Tree!Start
<1>2. \A edge : Store!upsert_edge(Batch, edge) <=> Tree!upsert_edge(Batch, edge)
  BY SameKeys DEF Store!upsert_edge, Tree!upsert_edge, Store!Start, Tree!Start, Store!Has, Tree!Has
<1>3. Store!put_docs(Batch) <=> Tree!put_docs(Batch)
  BY SameKeys DEF Store!put_docs, Tree!put_docs, Store!At, Tree!At, Store!Write, Tree!Write
<1>4. Store!put_entity(Batch) <=> Tree!put_entity(Batch)
  BY SameKeys DEF Store!put_entity, Tree!put_entity, Store!At, Tree!At, Store!Write, Tree!Write
<1>5. Store!check_dst(Batch) <=> Tree!check_dst(Batch)
  BY SameKeys DEF Store!check_dst, Tree!check_dst, Store!At, Tree!At, Store!Read, Tree!Read, Store!Has, Tree!Has
<1>6. Store!read_meta(Batch) <=> Tree!read_meta(Batch)
  BY SameKeys DEF Store!read_meta, Tree!read_meta, Store!At, Tree!At, Store!Read, Tree!Read
<1>7. Store!put_edge(Batch) <=> Tree!put_edge(Batch)
  BY SameKeys DEF Store!put_edge, Tree!put_edge, Store!At, Tree!At, Store!Write, Tree!Write
<1>8. Store!put_meta(Batch) <=> Tree!put_meta(Batch)
  BY SameKeys DEF Store!put_meta, Tree!put_meta, Store!At, Tree!At, Store!Write, Tree!Write
<1>9. Store!crash <=> Tree!crash
  BY SameKeys DEF Store!crash, Tree!crash
<1>10. Store!flush <=> Tree!flush
  BY DEF Store!flush, Tree!flush
<1>11. Store!fails(Batch) <=> Tree!fails(Batch)
  BY SameKeys DEF Store!fails, Tree!fails, Store!At, Tree!At, Store!Read, Tree!Read
<1>12. Store!Init <=> Tree!Init
  BY SameKeys DEF Store!Init, Tree!Init, Store!OpenedDb, Tree!OpenedDb, Store!EmptyMap, Tree!EmptyMap
<1> QED
  BY <1>1, <1>2, <1>3, <1>4, <1>5, <1>6, <1>7, <1>8, <1>9, <1>10, <1>11, <1>12

LEMMA StoreStarts == Store!Init => StoreInv
<1> SUFFICES ASSUME Store!Init PROVE StoreInv
  OBVIOUS
<1>1. Tree!IInv
  BY Bounds, StoreSteps, Tree!InitKeeps
<1>2. ~db.torn /\ ~disk.torn /\ call[Batch].pc = "idle"
  BY DEF Store!Init, Store!OpenedDb, Store!Idle
<1> QED
  BY <1>1, <1>2 DEF StoreInv, UpsertPcs

StoreStep ==
    \/ Store!put_docs(Batch) \/ Store!put_entity(Batch)
    \/ Store!check_dst(Batch) \/ Store!read_meta(Batch)
    \/ Store!put_edge(Batch) \/ Store!put_meta(Batch)

LEMMA TreeShape ==
    ASSUME StoreInv
    PROVE  /\ DOMAIN db = {"rows", "snaps", "meta", "acked", "taken", "torn"}
           /\ DOMAIN disk = {"rows", "snaps", "meta", "acked", "taken", "torn"}
           /\ DOMAIN call = {Batch}
           /\ \A tree \in {db, disk} :
                 /\ Tree!RowsOK(tree.rows) /\ Tree!Consistent(tree.rows)
                 /\ Tree!AckedIn(tree.rows, tree.acked) /\ Tree!Numbered(tree)
<1>1. Tree!TreeInv(db) /\ Tree!TreeInv(disk) /\ ~db.torn /\ ~disk.torn /\ DOMAIN call = {Batch}
  BY DEF StoreInv, Tree!IInv
<1>2. \A tree \in {db, disk} :
         /\ Tree!RowsOK(tree.rows) /\ Tree!Consistent(tree.rows)
         /\ Tree!AckedIn(tree.rows, tree.acked) /\ Tree!Numbered(tree)
  BY <1>1 DEF Tree!TreeInv, Tree!PayloadOK
<1> QED
  BY <1>1, <1>2 DEF Tree!TreeInv

-----------------------------------------------------------------------------
(***************************************************************************)
(* What the calls of a batch do to the tree.                               *)
(***************************************************************************)

LEMMA KeysDiffer ==
    /\ \A e, f : Store!ent_key(e) # Store!doc_key(f)
    /\ \A e, f : Store!ent_key(e) = Store!ent_key(f) => e = f
    /\ \A e, f : Store!doc_key(e) = Store!doc_key(f) => e = f
    /\ \A e, f, n : Store!out_key(e, n) # Store!ent_key(f) /\ Store!out_key(e, n) # Store!doc_key(f)
    /\ \A e : Store!ent_key(e)[1] = Store!K_ENT /\ Store!ent_key(e)[2] = e
    /\ \A e : Store!doc_key(e)[1] # Store!K_ENT
    /\ \A e, n : Store!out_key(e, n)[1] # Store!K_ENT
    /\ \A e : Store!ent_key(e)[1] # Store!K_OUT /\ Store!doc_key(e)[1] # Store!K_OUT
    /\ \A e, n : Store!out_key(e, n)[1] = Store!K_OUT /\ Store!out_key(e, n)[3] = n
BY DEF Store!ent_key, Store!doc_key, Store!out_key, Store!K_ENT, Store!K_DOC, Store!K_OUT

LEMMA UpsertStarts ==
    ASSUME StoreInv, NEW e \in Entities, NEW sources \in SUBSET Docs,
           Store!upsert_entity(Batch, e, sources)
    PROVE  /\ StoreInv' /\ db' = db
           /\ call'[Batch].pc \in {"put_docs", "put_entity"}
           /\ call'[Batch].id = e /\ call'[Batch].sources = sources
<1>1. Tree!upsert_entity(Batch, e, sources)
  BY StoreSteps
<1>2. Tree!IInv'
  BY <1>1, Bounds, Tree!UpsertEntityStarts DEF StoreInv
<1>3. PICK docs : Store!Upsert(Batch, e, sources, docs)
  BY DEF Store!upsert_entity
<1> DEFINE pc == IF docs = {} THEN "put_entity" ELSE "put_docs"
           r == Store!Put([pc |-> pc, id |-> e, sources |-> sources, docs |-> docs], "since", db)
<1>4. db' = db /\ disk' = disk /\ call' = [call EXCEPT ![Batch] = r]
  BY <1>3 DEF Store!Upsert, Store!Start
<1>5. r.pc = pc /\ r.id = e /\ r.sources = sources
  BY DEF Store!Put
<1> HIDE DEF r
<1>6. call'[Batch] = r
  BY <1>4, TreeShape
<1> QED
  BY <1>2, <1>4, <1>5, <1>6 DEF StoreInv, UpsertPcs

LEMMA EdgeStarts ==
    ASSUME StoreInv, NEW edge \in EdgeRows, Store!upsert_edge(Batch, edge)
    PROVE  /\ StoreInv' /\ db' = db /\ Linking(call'[Batch], edge)
           /\ call'[Batch].pc # "put_meta"
<1>1. Tree!upsert_edge(Batch, edge)
  BY StoreSteps
<1>2. Tree!IInv'
  BY <1>1, Bounds, Tree!UpsertEdgeStarts DEF StoreInv, EdgeRows
<1> DEFINE r == Store!Put([pc |-> "check_dst", edge |-> edge], "since", db)
<1>3. db' = db /\ disk' = disk /\ call' = [call EXCEPT ![Batch] = r]
  BY DEF Store!upsert_edge, Store!Start
<1>4. r.pc = "check_dst" /\ r.edge = edge
  BY DEF Store!Put
<1> HIDE DEF r
<1>5. call'[Batch] = r
  BY <1>3, TreeShape
<1> QED
  BY <1>2, <1>3, <1>4, <1>5 DEF StoreInv, UpsertPcs, Linking

\* A write to another table leaves the edges and their numbers alone.
LEMMA LinksSame ==
    ASSUME NEW old, NEW new, NEW key, key[1] # Store!K_OUT,
           DOMAIN new.rows = DOMAIN old.rows \cup {key}, new.meta = old.meta,
           \A j \in DOMAIN old.rows : j # key => new.rows[j] = old.rows[j]
    PROVE  SameLinks(old, new)
<1>1. Links(new) = Links(old)
  BY DEF Links, Store!Table
<1>2. Numb(new) = Numb(old)
  BY <1>1 DEF Numb
<1>3. \A k \in Links(old) : new.rows[k] = old.rows[k]
  BY DEF Links, Store!Table
<1> QED
  BY <1>1, <1>2, <1>3 DEF SameLinks

LEMMA PutDocsDoes ==
    ASSUME StoreInv, Store!put_docs(Batch)
    PROVE  /\ StoreInv' /\ Grows(db, db') /\ Ents(db') = Ents(db) /\ SameLinks(db, db')
           /\ \A e, d : Upserting(call[Batch], db, e, d) => Upserting(call'[Batch], db', e, d)
<1> DEFINE r == call[Batch]
           key == Store!doc_key(r.id)
           new == [db EXCEPT !.rows = Store!Put(@, key, r.docs)]
<1>1. Tree!IInv'
  BY Bounds, StoreSteps, Tree!PutDocsKeeps DEF StoreInv
<1>2. /\ r.pc = "put_docs" /\ db' = new /\ disk' = disk
      /\ call' = [call EXCEPT ![Batch] = [r EXCEPT !.pc = "put_entity"]]
  BY DEF Store!put_docs, Store!At, Store!Write
<1>3. /\ DOMAIN db'.rows = DOMAIN db.rows \cup {key} /\ db'.rows[key] = r.docs
      /\ \A j \in DOMAIN db.rows : j # key => db'.rows[j] = db.rows[j]
      /\ db'.acked = db.acked /\ db'.torn = db.torn /\ db'.meta = db.meta
  <2>1. /\ new.rows = Store!Put(db.rows, key, r.docs)
        /\ new.acked = db.acked /\ new.torn = db.torn /\ new.meta = db.meta
    BY TreeShape
  <2> HIDE DEF new
  <2> QED
    BY <1>2, <2>1 DEF Store!Put
<1>4. /\ DOMAIN r = {"since", "pc", "id", "sources", "docs"}
      /\ Tree!GetOr(db.rows, Tree!doc_key(r.id), {}) \subseteq r.docs
  BY <1>2 DEF StoreInv, Tree!IInv, Tree!CallInv, Tree!UpsertEntityInv
<1>5. /\ call'[Batch].pc = "put_entity" /\ call'[Batch].id = r.id /\ call'[Batch].sources = r.sources
  BY <1>2, <1>4, TreeShape
<1> HIDE DEF r, new
<1>6. key \in DOMAIN db.rows => db.rows[key] \subseteq r.docs
  BY <1>4, SameKeys DEF Tree!GetOr
<1> HIDE DEF key
<1>7. \A e : Store!ent_key(e) # key
  BY KeysDiffer DEF key
<1>8. Grows(db, db')
  BY <1>3, <1>6, <1>7 DEF Grows, Sourced
<1>9. Ents(db') = Ents(db)
  BY <1>3, KeysDiffer DEF Ents, Store!Table, key
<1>10. \A e, d : Upserting(r, db, e, d) => Upserting(call'[Batch], db', e, d)
  BY <1>3, <1>5, <1>7 DEF Upserting
<1>11. StoreInv'
  BY <1>1, <1>2, <1>3, <1>5 DEF StoreInv, UpsertPcs
<1>12. SameLinks(db, db')
  <2>1. key[1] # Store!K_OUT
    BY KeysDiffer DEF key
  <2> QED
    BY <1>3, <2>1, LinksSame
<1> QED
  BY <1>3, <1>8, <1>9, <1>10, <1>11, <1>12 DEF r

LEMMA PutEntityDoes ==
    ASSUME StoreInv, Store!put_entity(Batch),
           NEW e, NEW d, Upserting(call[Batch], db, e, d)
    PROVE  /\ StoreInv' /\ Grows(db, db') /\ call'[Batch] = Store!Idle
           /\ Ents(db') = Ents(db) \cup {Store!ent_key(e)} /\ SameLinks(db, db')
           /\ Sourced(db', e, d)
<1> DEFINE r == call[Batch]
           key == Store!ent_key(e)
           new == [db EXCEPT !.rows = Store!Put(@, key, r.sources)]
<1>1. Tree!IInv'
  BY Bounds, StoreSteps, Tree!PutEntityKeeps DEF StoreInv
<1>2. r.id = e /\ d \in r.sources /\ (key \in DOMAIN db.rows => db.rows[key] \subseteq r.sources)
  BY DEF Upserting
<1>3. r.pc = "put_entity" /\ db' = new /\ disk' = disk /\ call' = [call EXCEPT ![Batch] = Store!Idle]
  BY <1>2 DEF Store!put_entity, Store!At, Store!Write
<1>4. /\ DOMAIN db'.rows = DOMAIN db.rows \cup {key} /\ db'.rows[key] = r.sources
      /\ \A j \in DOMAIN db.rows : j # key => db'.rows[j] = db.rows[j]
      /\ db'.acked = db.acked /\ db'.torn = db.torn /\ db'.meta = db.meta
  <2>1. /\ new.rows = Store!Put(db.rows, key, r.sources)
        /\ new.acked = db.acked /\ new.torn = db.torn /\ new.meta = db.meta
    BY TreeShape
  <2> HIDE DEF new
  <2> QED
    BY <1>3, <2>1 DEF Store!Put
<1>5. r.sources \subseteq Tree!GetOr(db.rows, Tree!doc_key(r.id), {})
  BY <1>3 DEF StoreInv, Tree!IInv, Tree!CallInv, Tree!UpsertEntityInv
<1>6. call'[Batch] = Store!Idle
  BY <1>3, TreeShape
<1> HIDE DEF r, new
<1>7. Store!doc_key(e) \in DOMAIN db.rows /\ r.sources \subseteq db.rows[Store!doc_key(e)]
  BY <1>2, <1>5, SameKeys DEF Tree!GetOr
<1>8. \A f : Store!doc_key(f) # key /\ (Store!ent_key(f) = key => f = e)
  BY KeysDiffer
<1> HIDE DEF key
<1>9. Grows(db, db')
  <2>1. \A f, c : Sourced(db, f, c) => Sourced(db', f, c)
    BY <1>2, <1>4, <1>8 DEF Sourced, key
  <2> QED
    BY <1>4, <2>1 DEF Grows
<1>10. Ents(db') = Ents(db) \cup {key}
  BY <1>4, KeysDiffer DEF Ents, Store!Table, key
<1>11. Sourced(db', e, d)
  BY <1>2, <1>4, <1>7, <1>8 DEF Sourced, key
<1>12. StoreInv'
  BY <1>1, <1>3, <1>4, <1>6 DEF StoreInv, UpsertPcs, Store!Idle
<1>13. SameLinks(db, db')
  <2>1. key[1] # Store!K_OUT
    BY KeysDiffer DEF key
  <2> QED
    BY <1>4, <2>1, LinksSame
<1> QED
  BY <1>4, <1>6, <1>9, <1>10, <1>11, <1>12, <1>13 DEF key

LEMMA CheckDstDoes ==
    ASSUME StoreInv, Store!check_dst(Batch),
           NEW edge, Linking(call[Batch], edge), Store!ent_key(edge.dst) \in DOMAIN db.rows
    PROVE  /\ StoreInv' /\ db' = db /\ Linking(call'[Batch], edge)
           /\ call[Batch].pc # "put_meta" /\ call'[Batch].pc # "put_meta"
<1> DEFINE r == call[Batch]
           new == [r EXCEPT !.pc = "read_meta"]
<1>1. Tree!IInv'
  BY Bounds, StoreSteps, Tree!CheckDstKeeps DEF StoreInv
<1>2. r.pc = "check_dst" /\ r.edge = edge
  BY DEF Store!check_dst, Store!At, Linking
<1>3. db' = db /\ disk' = disk /\ call' = [call EXCEPT ![Batch] = new]
  BY <1>2 DEF Store!check_dst, Store!Read, Store!Has
<1>4. DOMAIN r = {"since", "pc", "edge"}
  BY <1>2 DEF StoreInv, Tree!IInv, Tree!CallInv, Tree!UpsertEdgeInv
<1>5. new.pc = "read_meta" /\ new.edge = edge
  BY <1>2, <1>4
<1> HIDE DEF new
<1>6. call'[Batch] = new
  BY <1>3, TreeShape
<1> QED
  BY <1>1, <1>2, <1>3, <1>5, <1>6 DEF StoreInv, UpsertPcs, Linking

LEMMA ReadMetaDoes ==
    ASSUME StoreInv, Store!read_meta(Batch), NEW edge, Linking(call[Batch], edge)
    PROVE  /\ StoreInv' /\ db' = db /\ Linking(call'[Batch], edge)
           /\ call[Batch].pc # "put_meta" /\ call'[Batch].pc # "put_meta"
<1> DEFINE r == call[Batch]
           next == [r EXCEPT !.pc = "put_edge"]
           new == Store!Put(next, "meta", db.meta)
<1>1. Tree!IInv'
  BY Bounds, StoreSteps, Tree!ReadMetaKeeps DEF StoreInv
<1>2. r.pc = "read_meta" /\ r.edge = edge
  BY DEF Store!read_meta, Store!At, Linking
<1>3. db' = db /\ disk' = disk /\ call' = [call EXCEPT ![Batch] = new]
  BY DEF Store!read_meta, Store!Read
<1>4. DOMAIN r = {"since", "pc", "edge"}
  BY <1>2 DEF StoreInv, Tree!IInv, Tree!CallInv, Tree!UpsertEdgeInv
<1>5. next.pc = "put_edge" /\ next.edge = edge /\ DOMAIN next = {"since", "pc", "edge"}
  BY <1>2, <1>4
<1> HIDE DEF next
<1>6. new.pc = "put_edge" /\ new.edge = edge
  BY <1>5 DEF Store!Put
<1> HIDE DEF new
<1>7. call'[Batch] = new
  BY <1>3, TreeShape
<1> QED
  BY <1>1, <1>2, <1>3, <1>6, <1>7 DEF StoreInv, UpsertPcs, Linking

\* The edge is there, and is not numbered yet.
LEMMA PutEdgeDoes ==
    ASSUME StoreInv, Store!put_edge(Batch), NEW edge, Linking(call[Batch], edge)
    PROVE  /\ StoreInv' /\ Grows(db, db') /\ Ents(db') = Ents(db)
           /\ Linking(call'[Batch], edge)
           /\ call[Batch].pc = "put_edge" /\ call'[Batch].pc = "put_meta"
           /\ Numb(db') = Numb(db)
           /\ \E key : /\ Links(db') = Links(db) \cup {key} /\ db'.rows[key] = edge
                       /\ \A k \in Links(db) : k # key => db'.rows[k] = db.rows[k]
<1> DEFINE r == call[Batch]
           key == Store!out_key(edge.src, r.meta.next_edge_seq)
           new == [db EXCEPT !.rows = Store!Put(@, key, edge)]
           next == [r EXCEPT !.pc = "put_meta"]
<1>1. Tree!IInv'
  BY Bounds, StoreSteps, Tree!PutEdgeKeeps DEF StoreInv
<1>2. r.pc = "put_edge" /\ r.edge = edge
  BY DEF Store!put_edge, Store!At, Linking
<1>3. db' = new /\ disk' = disk /\ call' = [call EXCEPT ![Batch] = next]
  BY <1>2 DEF Store!put_edge, Store!Write
<1>4. DOMAIN r = {"since", "pc", "edge", "meta"}
  BY <1>2 DEF StoreInv, Tree!IInv, Tree!CallInv, Tree!UpsertEdgeInv
<1>5. next.pc = "put_meta" /\ next.edge = edge
  BY <1>2, <1>4
<1> HIDE DEF next
<1>6. call'[Batch] = next
  BY <1>3, TreeShape
<1>7. \A j : (\E e : j \in {Store!ent_key(e), Store!doc_key(e)}) \/ j[1] = Store!K_ENT => j # key
  BY KeysDiffer
<1>8. key[1] # Store!K_ENT /\ key[1] = Store!K_OUT /\ key[3] = r.meta.next_edge_seq
  BY KeysDiffer
<1>13. r.meta = db.meta /\ db.meta.next_edge_seq \in Nat
  <2>1. r.meta = db.meta
    BY <1>2 DEF StoreInv, Tree!IInv, Tree!CallInv, Tree!UpsertEdgeInv
  <2>2. db.meta \in [next_snap: Nat, next_edge_seq: Nat]
    BY DEF StoreInv, Tree!IInv, Tree!TreeInv
  <2> QED
    BY <2>1, <2>2
<1> HIDE DEF r, key
<1>9. /\ DOMAIN db'.rows = DOMAIN db.rows \cup {key} /\ db'.rows[key] = edge
      /\ \A j \in DOMAIN db.rows : j # key => db'.rows[j] = db.rows[j]
      /\ db'.acked = db.acked /\ db'.torn = db.torn /\ db'.meta = db.meta
  <2>1. /\ new.rows = Store!Put(db.rows, key, edge)
        /\ new.acked = db.acked /\ new.torn = db.torn /\ new.meta = db.meta
    BY TreeShape
  <2> HIDE DEF new
  <2> QED
    BY <1>3, <2>1 DEF Store!Put
<1>10. Grows(db, db')
  BY <1>7, <1>9 DEF Grows, Sourced
<1>11. Ents(db') = Ents(db)
  BY <1>8, <1>9 DEF Ents, Store!Table
<1>12. StoreInv'
  BY <1>1, <1>3, <1>5, <1>6, <1>9 DEF StoreInv, UpsertPcs
<1>14. /\ Links(db') = Links(db) \cup {key} /\ db'.rows[key] = edge
       /\ \A k \in Links(db) : k # key => db'.rows[k] = db.rows[k]
  BY <1>8, <1>9 DEF Links, Store!Table
<1>15. Numb(db') = Numb(db)
  <2>1. ~(key[3] < db.meta.next_edge_seq)
    BY <1>8, <1>13
  <2> QED
    BY <1>9, <1>14, <2>1 DEF Numb
<1>16. call[Batch].pc = "put_edge"
  BY <1>2 DEF r
<1> QED
  BY <1>5, <1>6, <1>9, <1>10, <1>11, <1>12, <1>14, <1>15, <1>16 DEF Linking

\* The edge is acknowledged, and every edge is numbered.

LEMMA PutMetaDoes ==
    ASSUME StoreInv, Store!put_meta(Batch), NEW edge, Linking(call[Batch], edge)
    PROVE  /\ StoreInv' /\ Grows(db, db') /\ Ents(db') = Ents(db) /\ call'[Batch] = Store!Idle
           /\ LinkedIn(db', edge) /\ call[Batch].pc = "put_meta"
           /\ Links(db') = Links(db) /\ Numb(db') = Links(db)
           /\ \A k \in Links(db) : db'.rows[k] = db.rows[k]
           /\ \E key \in Links(db) : key \notin Numb(db)
<1> DEFINE r == call[Batch]
           key == Store!out_key(edge.src, r.meta.next_edge_seq)
           a == <<key, edge>>
           new == [db EXCEPT !.meta = [r.meta EXCEPT !.next_edge_seq = @ + 1],
                             !.acked = @ \cup {a}]
<1>1. Tree!IInv'
  BY Bounds, StoreSteps, Tree!PutMetaKeeps DEF StoreInv
<1>2. r.pc = "put_meta" /\ r.edge = edge
  BY DEF Store!put_meta, Store!At, Linking
<1>3. db' = new /\ disk' = disk /\ call' = [call EXCEPT ![Batch] = Store!Idle]
  BY <1>2 DEF Store!put_meta, Store!Write
<1>4. r.meta = db.meta
  BY <1>2 DEF StoreInv, Tree!IInv, Tree!CallInv, Tree!UpsertEdgeInv
<1>5. call'[Batch] = Store!Idle
  BY <1>3, TreeShape
<1>6. /\ Tree!Numbered(db) /\ db.meta \in [next_snap: Nat, next_edge_seq: Nat]
      /\ Tree!RowsOK(db.rows)
  BY TreeShape DEF StoreInv, Tree!IInv, Tree!TreeInv
<1>7. key \in DOMAIN db.rows /\ key[1] = Store!K_OUT /\ key[3] = db.meta.next_edge_seq
  <2>1. key \in DOMAIN db.rows
    BY <1>2, <1>4, SameKeys DEF StoreInv, Tree!IInv, Tree!CallInv, Tree!UpsertEdgeInv
  <2> QED
    BY <1>4, <2>1, KeysDiffer
<1>8. a[2] = edge /\ call[Batch].pc = "put_meta"
  BY <1>2
<1>9. /\ db'.rows = db.rows /\ db'.acked = db.acked \cup {a} /\ db'.torn = db.torn
      /\ db'.meta.next_edge_seq = db.meta.next_edge_seq + 1
  <2> DEFINE meta == [r.meta EXCEPT !.next_edge_seq = @ + 1]
  <2>1. meta.next_edge_seq = db.meta.next_edge_seq + 1
    BY <1>4, <1>6
  <2> HIDE DEF meta, r, a
  <2> QED
    BY <1>3, <2>1, TreeShape DEF meta
<1> HIDE DEF r, a, key
<1>10. Grows(db, db') /\ Ents(db') = Ents(db) /\ Links(db') = Links(db)
  BY <1>9 DEF Grows, Sourced, Ents, Links
<1>11. Numb(db') = Links(db)
  <2>1. \A k \in Links(db) : k[3] \in Nat /\ k[3] <= db.meta.next_edge_seq
    <3> SUFFICES ASSUME NEW k \in Links(db) PROVE k[3] \in Nat /\ k[3] <= db.meta.next_edge_seq
      OBVIOUS
    <3>1. k \in Tree!Table(db.rows, Tree!K_OUT) /\ k \in Tree!Keys
      BY <1>6, SameKeys DEF Links, Tree!RowsOK, Tree!Table
    <3> QED
      BY <1>6, <3>1, Bounds, Tree!KeyKinds DEF Tree!Numbered
  <2>2. \A k \in Links(db) : k[3] < db'.meta.next_edge_seq
    BY <1>6, <1>9, <2>1
  <2> QED
    BY <1>10, <2>2 DEF Numb
<1>12. key \in Links(db) /\ key \notin Numb(db)
  BY <1>6, <1>7 DEF Links, Numb, Store!Table
<1>13. StoreInv'
  BY <1>1, <1>3, <1>5, <1>9 DEF StoreInv, UpsertPcs, Store!Idle
<1>14. LinkedIn(db', edge)
  BY <1>8, <1>9 DEF LinkedIn
<1> QED
  BY <1>5, <1>8, <1>9, <1>10, <1>11, <1>12, <1>13, <1>14

\* An access fails: the call returns, and leaves what it wrote.
LEMMA FailsDoes ==
    ASSUME StoreInv, Store!fails(Batch)
    PROVE  StoreInv' /\ db' = db /\ disk' = disk /\ call'[Batch] = Store!Idle
<1>1. Tree!IInv'
  BY Bounds, StoreSteps, Tree!FailsKeeps DEF StoreInv
<1>2. db' = db /\ disk' = disk /\ call'[Batch] = Store!Idle
  BY TreeShape DEF Store!fails, Store!Read
<1> QED
  BY <1>1, <1>2 DEF StoreInv, UpsertPcs, Store!Idle

\* A crash goes back to what was flushed, and a flush keeps it.
LEMMA CrashDoes ==
    ASSUME StoreInv, Store!crash
    PROVE  StoreInv' /\ db' = disk /\ disk' = disk /\ call'[Batch] = Store!Idle
<1>1. Tree!IInv'
  BY Bounds, StoreSteps, Tree!CrashKeeps DEF StoreInv
<1>2. db' = disk /\ disk' = disk /\ call'[Batch] = Store!Idle
  BY DEF Store!crash
<1> QED
  BY <1>1, <1>2 DEF StoreInv, UpsertPcs, Store!Idle

LEMMA FlushDoes ==
    ASSUME StoreInv, Store!flush
    PROVE  StoreInv' /\ db' = db /\ disk' = db /\ call' = call
<1>1. Tree!IInv'
  BY Bounds, StoreSteps, Tree!FlushKeeps DEF StoreInv
<1>2. db' = db /\ disk' = db /\ call' = call
  BY DEF Store!flush
<1> QED
  BY <1>1, <1>2 DEF StoreInv

LEMMA ClosingFlushes ==
    ASSUME StoreInv, disk' = db, UNCHANGED <<db, call, crashes>>
    PROVE  StoreInv'
BY DEF StoreInv, Tree!IInv

LEMMA StoreStays ==
    ASSUME StoreInv, UNCHANGED storeVars
    PROVE  StoreInv'
BY DEF StoreInv, Tree!IInv, storeVars

-----------------------------------------------------------------------------
(***************************************************************************)
(* What the policy lets through.                                           *)
(***************************************************************************)

\* Every number up to the count of the places is the rank of one of them.
LEMMA Ranked ==
    ASSUME NEW n \in Nat, NEW places \in SUBSET (1..n)
    PROVE  /\ Cardinality(places) \in Nat
           /\ \A m \in 1..Cardinality(places) :
                 \E i \in places : Cardinality({j \in places : j <= i}) = m
<1> DEFINE upto(i) == {j \in places : j <= i}
           rank(i) == Cardinality(upto(i))
           size == Cardinality(places)
<1>1. IsFiniteSet(places) /\ size \in Nat
  <2>1. IsFiniteSet(1..n)
    BY FS_Interval
  <2>2. IsFiniteSet(places)
    BY <2>1, FS_Subset
  <2> QED
    BY <2>2, FS_CardinalityType
<1>2. ASSUME NEW i \in places
      PROVE  IsFiniteSet(upto(i)) /\ rank(i) \in 1..size
  <2>1. upto(i) \in SUBSET places /\ i \in upto(i)
    OBVIOUS
  <2> HIDE DEF upto
  <2>2. IsFiniteSet(upto(i)) /\ rank(i) <= size
    BY <1>1, <2>1, FS_Subset
  <2>3. rank(i) \in Nat /\ rank(i) # 0
    BY <2>1, <2>2, FS_CardinalityType, FS_EmptySet
  <2> QED
    BY <1>1, <2>2, <2>3
<1>3. ASSUME NEW i \in places, NEW k \in places, i < k
      PROVE  rank(i) < rank(k)
  <2>1. upto(i) \in SUBSET upto(k) /\ k \in upto(k) /\ k \notin upto(i)
    <3>1. \A j \in places : j \in Int
      OBVIOUS
    <3>2. \A j \in places : j <= i => j <= k
      BY <1>3, <3>1
    <3>3. k <= k /\ ~(k <= i)
      BY <1>3, <3>1
    <3> QED
      BY <3>2, <3>3
  <2> HIDE DEF upto
  <2>2. rank(i) <= rank(k) /\ (rank(k) = rank(i) => upto(k) = upto(i))
    BY <1>2, <2>1, FS_Subset
  <2>3. rank(i) \in Nat /\ rank(k) \in Nat
    BY <1>1, <1>2
  <2> QED
    BY <2>1, <2>2, <2>3
<1>4. ASSUME NEW i \in places, NEW k \in places, rank(i) = rank(k)
      PROVE  i = k
  <2> SUFFICES ASSUME i # k PROVE FALSE
    OBVIOUS
  <2>1. i < k \/ k < i
    OBVIOUS
  <2>2. rank(i) \in Nat
    BY <1>1, <1>2
  <2> QED
    BY <1>3, <1>4, <2>1, <2>2
<1>5. ASSUME NEW m \in 1..size PROVE \E i \in places : rank(i) = m
  <2> DEFINE f == [i \in places |-> rank(i)]
  <2>1. f \in Injection(places, 1..size)
    BY <1>2, <1>4 DEF Injection, IsInjective
  <2>2. IsFiniteSet(1..size) /\ Cardinality(1..size) = size
    BY <1>1, FS_Interval
  <2> HIDE DEF f, rank
  <2>3. f \in Surjection(places, 1..size)
    BY <2>1, <2>2, FS_Injection
  <2> QED
    BY <2>3 DEF Surjection, f
<1> QED
  BY <1>1, <1>5

\* What is extracted is made of triples, each of them one of the answer in
\* which the sanitizer has nothing to reject.
LEMMA ExtractedClean ==
    ASSUME NEW triples \in Envelopes, triples \in Seq(RawTriples)
    PROVE  Extracted(triples) \in Seq(RawTriples) /\ CleanTriples(Extracted(triples))
<1> DEFINE accepted == {i \in DOMAIN triples : i <= MaxTriples /\ Accepted(triples[i])}
           size == Cardinality(accepted)
           place(n) == CHOOSE i \in accepted : Cardinality({j \in accepted : j <= i}) = n
           out == [n \in 1..size |-> Sanitized(triples[place(n)])]
<1>1. accepted \in SUBSET (1..Len(triples)) /\ Len(triples) \in Nat
  OBVIOUS
<1>2. \A i \in accepted : triples[i] \in RawTriples /\ Accepted(triples[i])
  OBVIOUS
<1> HIDE DEF accepted
<1>3. size \in Nat /\ \A n \in 1..size : place(n) \in accepted
  <2>1. size \in Nat /\ \A n \in 1..size : \E i \in accepted : Cardinality({j \in accepted : j <= i}) = n
    BY <1>1, Ranked
  <2> QED
    BY <2>1
<1>4. Extracted(triples) = out
  <2> DEFINE clean == AtPlaces(triples, accepted)
  <2>1. clean = [n \in 1..size |-> triples[place(n)]]
    BY DEF AtPlaces
  <2>2. Extracted(triples) = [i \in DOMAIN clean |-> Sanitized(clean[i])]
    BY DEF Extracted, accepted
  <2> HIDE DEF clean, size, place
  <2> QED
    BY <2>1, <2>2
<1>5. ASSUME NEW i \in accepted
      PROVE  Sanitized(triples[i]) \in RawTriples /\ CleanTriple(Sanitized(triples[i]))
  <2> DEFINE raw == triples[i]
  <2>1. raw \in RawTriples /\ Accepted(raw)
    BY <1>2
  <2>2. raw \in UNION {{s[m] : m \in DOMAIN s} : s \in Envelopes}
    <3>1. i \in DOMAIN triples
      BY <1>1
    <3> QED
      BY <3>1
  <2> HIDE DEF raw
  <2>3. raw \in Unobjectionable
    BY <2>1, <2>2 DEF Unobjectionable, Accepted, NameOk
  <2>4. related_to \in Relations
    BY PolicyAssumption
  <2>5. /\ Sanitized(raw) \in RawTriples
        /\ Sanitized(raw).src = raw.src /\ Sanitized(raw).dst = raw.dst
        /\ Sanitized(raw).rel = Stored(raw.rel)
    BY <2>1, <2>4 DEF Sanitized, RawTriples, Stored
  <2> QED
    BY <2>3, <2>5 DEF CleanTriple, raw
<1> HIDE DEF place, size
<1>6. \A n \in 1..size : out[n] \in RawTriples /\ CleanTriple(out[n])
  BY <1>3, <1>5
<1>7. out \in Seq(RawTriples) /\ Len(out) = size
  BY <1>3, <1>6
<1> HIDE DEF out
<1> QED
  BY <1>4, <1>6, <1>7 DEF CleanTriples

-----------------------------------------------------------------------------
(***************************************************************************)
(* What the steps of the command do to its record.                         *)
(***************************************************************************)

LEMMA Numbers ==
    ASSUME NEW b, BatchTyped(b)
    PROVE  /\ b.seen \in Nat /\ b.ok \in Nat /\ Len(b.failures) \in Nat
           /\ b.base.entities \in Nat /\ b.base.edges \in Nat /\ b.base.numbered \in Nat
           /\ b.base \in Sizes
           /\ b.totals.entities \in Nat /\ b.totals.edges \in Nat /\ b.totals.skipped \in Nat
           /\ b.report.entities \in Nat /\ b.report.edges \in Nat /\ b.report.skipped \in Nat
<1>1. b.failures \in Seq(Failures) /\ b.seen \in Nat /\ b.ok \in Nat
  BY DEF BatchTyped
<1>2. b.base \in Sizes /\ b.report \in Reports /\ b.totals \in Reports
  BY DEF BatchTyped
<1>3. Len(b.failures) \in Nat
  BY <1>1
<1> QED
  BY <1>1, <1>2, <1>3 DEF Reports, Sizes

LEMMA Reported ==
    /\ NoReport \in Reports
    /\ NoReport.entities = 0 /\ NoReport.edges = 0 /\ NoReport.skipped = 0
    /\ \A r, s \in Reports : /\ Sum(r, s) \in Reports
                             /\ Sum(r, s).entities = r.entities + s.entities
                             /\ Sum(r, s).edges = r.edges + s.edges
                             /\ Sum(r, s).skipped = r.skipped + s.skipped
BY DEF NoReport, Reports, Sum

LEMMA Sizable ==
    ASSUME NEW tree, Countable(tree)
    PROVE  /\ IsFiniteSet(Ents(tree)) /\ IsFiniteSet(Links(tree)) /\ IsFiniteSet(Numb(tree))
           /\ Cardinality(Ents(tree)) \in Nat /\ Cardinality(Links(tree)) \in Nat
           /\ Cardinality(Numb(tree)) \in Nat /\ Cardinality(Numb(tree)) <= Cardinality(Links(tree))
<1>1. IsFiniteSet(Ents(tree)) /\ IsFiniteSet(Links(tree)) /\ Numb(tree) \in SUBSET Links(tree)
  BY DEF Countable, Numb
<1>2. IsFiniteSet(Numb(tree)) /\ Cardinality(Numb(tree)) <= Cardinality(Links(tree))
  BY <1>1, FS_Subset
<1> QED
  BY <1>1, <1>2, FS_CardinalityType

\* An edge of a line that failed counts for nothing.
LEMMA GrownLess ==
    ASSUME NEW base \in Sizes, NEW tree, Countable(tree),
           NEW n \in Nat, NEW m \in Nat, m <= n, Grown(base, tree, n)
    PROVE  Grown(base, tree, m)
<1>1. base.edges \in Nat /\ base.numbered \in Nat
  BY DEF Sizes
<1>2. Cardinality(Numb(tree)) \in Nat
  BY Sizable
<1> QED
  BY <1>1, <1>2 DEF Grown

\* An edge that is not numbered.
LEMMA OneLinkMore ==
    ASSUME NEW base \in Sizes, NEW tree, Countable(tree), NEW new, NEW key,
           Links(new) = Links(tree) \cup {key}, Numb(new) = Numb(tree),
           NEW n, Grown(base, tree, n)
    PROVE  /\ Grown(base, new, n) /\ IsFiniteSet(Links(new))
           /\ Cardinality(Links(new)) \in Nat
           /\ Cardinality(Links(new)) <= Cardinality(Links(tree)) + 1
<1>1. base.edges \in Nat /\ Cardinality(Links(tree)) \in Nat /\ IsFiniteSet(Links(tree))
  BY Sizable DEF Sizes
<1>2. /\ IsFiniteSet(Links(new))
      /\ Cardinality(Links(new)) \in {Cardinality(Links(tree)), Cardinality(Links(tree)) + 1}
  BY <1>1, FS_AddElement
<1> QED
  BY <1>1, <1>2 DEF Grown

\* All edges are numbered when one is acknowledged.
LEMMA OneAckMore ==
    ASSUME NEW base \in Sizes, NEW tree, Countable(tree), NEW new,
           Links(new) = Links(tree), Numb(new) = Links(tree),
           NEW key \in Links(tree), key \notin Numb(tree),
           NEW n \in Nat, Grown(base, tree, n)
    PROVE  Grown(base, new, n + 1)
<1> DEFINE links == Cardinality(Links(tree))
           numb == Cardinality(Numb(tree))
<1>1. base.edges \in Nat /\ base.numbered \in Nat /\ links \in Nat /\ numb \in Nat
  BY Sizable DEF Sizes
<1>2. links >= numb + 1
  <2>1. IsFiniteSet(Links(tree)) /\ Numb(tree) \in SUBSET Links(tree)
    BY Sizable DEF Numb
  <2>2. numb <= links /\ (links = numb => Links(tree) = Numb(tree))
    BY <2>1, FS_Subset
  <2> QED
    BY <1>1, <2>2
<1>3. /\ links >= base.edges /\ numb >= base.numbered + n
      /\ n >= 1 => numb >= base.edges + n - 1
  BY DEF Grown
<1>4. /\ links >= base.numbered + (n + 1)
      /\ links >= base.edges + (n + 1) - 1
  <2> HIDE DEF links, numb
  <2>1. CASE n = 0
    BY <1>1, <1>2, <1>3, <2>1
  <2>2. CASE n >= 1
    BY <1>1, <1>2, <1>3, <2>2
  <2> QED
    BY <2>1, <2>2
<1> QED
  BY <1>3, <1>4 DEF Grown

\* Apply goes on with the triples that are left, or the line is done.
LEMMA Applied ==
    ASSUME NEW b, NEW triples \in Seq(RawTriples), NEW command, NEW file, NEW r, NEW tree,
           BatchTyped(b), b.doc \in Docs, ~b.created, r.pc = "idle",
           Noted(b, tree), \A name \in b.local : IdOf[name] \in b.named,
           command = "ingest-batch" => Counted(b, file, 1),
           command # "library" => Balance(b, tree, 0, 0, 0),
           command # "ingest-stub" => CleanTriples(triples)
    PROVE  BatchInv(Apply(b, triples), command, file, r, tree)
<1>1. CASE triples # <<>>
  <2> DEFINE new == [b EXCEPT !.triples = triples, !.ids = <<>>, !.pc = "resolve"]
  <2>1. /\ DOMAIN new = Fields /\ new.pc = "resolve" /\ new.triples = triples /\ new.ids = <<>>
        /\ new.rest = b.rest /\ new.doc = b.doc /\ new.local = b.local /\ new.created = b.created
        /\ new.report = b.report /\ new.seen = b.seen /\ new.ok = b.ok /\ new.totals = b.totals
        /\ new.failures = b.failures /\ new.base = b.base /\ new.named = b.named
        /\ new.linked = b.linked /\ new.landed = b.landed
    BY DEF BatchTyped, Fields
  <2>2. Apply(b, triples) = new
    BY <1>1 DEF Apply
  <2> HIDE DEF new
  <2>3. BatchTyped(new)
    BY <2>1 DEF BatchTyped, Working, Applying
  <2>4. Positioned(new)
    <3>1. Len(new.ids) = 0
      BY <2>1
    <3> QED
      BY <1>1, <2>1, <3>1 DEF Positioned, Applying
  <2>5. Noted(new, tree)
    BY <2>1 DEF Noted
  <2>6. Matches(new, r, tree)
    BY <2>1 DEF Matches
  <2>7. command = "ingest-batch" => Counted(new, file, Pending(new))
    <3>1. Pending(new) = 1
      BY <2>1 DEF Pending, Working, Applying
    <3> QED
      BY <2>1, <3>1 DEF Counted
  <2>8. command # "library" => Accounted(new, r, tree)
    BY <2>1 DEF Accounted, Balance, Partial
  <2> QED
    BY <2>1, <2>2, <2>3, <2>4, <2>5, <2>6, <2>7, <2>8 DEF BatchInv
<1>2. CASE triples = <<>>
  <2> DEFINE new == RowDone([b EXCEPT !.triples = <<>>, !.ids = <<>>])
  <2>1. /\ DOMAIN new = Fields /\ new.pc = "read" /\ new.triples = <<>> /\ new.ids = <<>>
        /\ new.rest = b.rest /\ new.doc = b.doc /\ new.local = {} /\ new.created = b.created
        /\ new.report = NoReport /\ new.seen = b.seen /\ new.ok = b.ok + 1
        /\ new.totals = Sum(b.totals, b.report) /\ new.failures = b.failures /\ new.base = b.base
        /\ new.named = {} /\ new.linked = {}
        /\ new.landed = [named |-> b.landed.named \cup (b.named \X {b.doc}),
                         linked |-> b.landed.linked \cup b.linked]
    BY DEF BatchTyped, Fields, RowDone
  <2>2. Apply(b, triples) = new
    BY <1>2 DEF Apply
  <2> HIDE DEF new
  <2>3. BatchTyped(new)
    BY <2>1, Reported DEF BatchTyped
  <2>4. Positioned(new)
    BY <2>1 DEF Positioned, Working, Applying
  <2>5. Noted(new, tree)
    BY <2>1 DEF Noted, Applying
  <2>6. Matches(new, r, tree)
    BY <2>1 DEF Matches
  <2>7. command = "ingest-batch" => Counted(new, file, Pending(new))
    <3>1. Pending(new) = 0
      BY <2>1 DEF Pending, Working, Applying
    <3> QED
      BY <2>1, <3>1, Numbers DEF Counted
  <2>8. command # "library" => Accounted(new, r, tree)
    <3>1. b.totals \in Reports /\ b.report \in Reports
      BY DEF BatchTyped
    <3>2. /\ new.totals.entities = b.totals.entities + b.report.entities
          /\ new.totals.edges = b.totals.edges + b.report.edges
          /\ new.totals.skipped = b.totals.skipped + b.report.skipped
          /\ new.report.entities = 0 /\ new.report.edges = 0 /\ new.report.skipped = 0
      BY <2>1, <3>1, Reported
    <3>3. /\ new.base.entities + new.totals.entities + new.report.entities + 0
               = b.base.entities + b.totals.entities + b.report.entities + 0
          /\ new.totals.edges + new.report.edges + 0 = b.totals.edges + b.report.edges + 0
          /\ new.totals.skipped + new.report.skipped = b.totals.skipped + b.report.skipped
          /\ new.base = b.base
      <4>1. /\ b.base.entities \in Nat
            /\ b.totals.entities \in Nat /\ b.totals.edges \in Nat /\ b.totals.skipped \in Nat
            /\ b.report.entities \in Nat /\ b.report.edges \in Nat /\ b.report.skipped \in Nat
        BY Numbers
      <4>2. new.base = b.base
        BY <2>1
      <4> QED
        BY <3>2, <4>1, <4>2
    <3>4. Partial(new) = Partial(b)
      BY <2>1 DEF Partial
    <3>5. Accounted(new, r, tree) = Balance(new, tree, 0, 0, 0)
      BY <2>1 DEF Accounted
    <3>6. Balance(new, tree, 0, 0, 0) = Balance(b, tree, 0, 0, 0)
      BY <3>3, <3>4 DEF Balance
    <3> QED
      BY <3>5, <3>6
  <2> QED
    BY <1>2, <2>1, <2>2, <2>3, <2>4, <2>5, <2>6, <2>7, <2>8 DEF BatchInv
<1> QED
  BY <1>1, <1>2

\* A line fails: a batch notes it and goes on, another command gives up.  What
\* the line had stored when it failed in apply is in no total.
LEMMA LineFailed ==
    ASSUME ArmsInv, NEW b, NEW stage \in {"parse", "llm", "apply"}, NEW r, NEW tree,
           BatchTyped(b), ~b.created, r.pc = "idle", Noted(b, tree),
           b.report = NoReport, b.local = {}, b.named = {}, b.linked = {},
           program.command = "ingest-batch" => Counted(b, program.file, 1),
           program.command # "library" =>
               /\ Cardinality(Ents(tree)) >= b.base.entities + b.totals.entities
               /\ Grown(b.base, tree, b.totals.edges)
               /\ stage # "apply" => Balance(b, tree, 0, 0, 0),
           program.command # "ingest-stub" => CleanTriples(b.triples)
    PROVE  BatchInv(Failed(b, stage), program.command, program.file, r, tree)
<1>1. CASE program.command # "ingest-batch"
  <2> DEFINE new == [b EXCEPT !.pc = "error"]
  <2>1. /\ DOMAIN new = Fields /\ new.pc = "error" /\ new.triples = b.triples /\ new.ids = b.ids
        /\ new.rest = b.rest /\ new.doc = b.doc /\ new.local = {} /\ new.created = b.created
        /\ new.report = NoReport /\ new.seen = b.seen /\ new.ok = b.ok /\ new.totals = b.totals
        /\ new.failures = b.failures /\ new.base = b.base /\ new.named = {}
        /\ new.linked = {} /\ new.landed = b.landed
    BY DEF BatchTyped, Fields
  <2>2. Failed(b, stage) = new
    BY <1>1 DEF Failed
  <2> HIDE DEF new
  <2>3. BatchTyped(new)
    BY <2>1, Reported DEF BatchTyped, Ended
  <2>4. Positioned(new)
    BY <2>1 DEF Positioned, Working, Applying
  <2>5. Noted(new, tree)
    BY <2>1 DEF Noted, Applying
  <2>6. Matches(new, r, tree)
    BY <2>1 DEF Matches
  <2> QED
    BY <1>1, <2>1, <2>2, <2>3, <2>4, <2>5, <2>6 DEF BatchInv
<1>2. CASE program.command = "ingest-batch"
  <2> DEFINE failure == [stage |-> stage, tried |-> Len(request[Batch].tried)]
             failures == Append(b.failures, failure)
             new == [b EXCEPT !.pc = "read", !.failures = failures]
  <2>1. /\ DOMAIN new = Fields /\ new.pc = "read" /\ new.triples = b.triples /\ new.ids = b.ids
        /\ new.rest = b.rest /\ new.doc = b.doc /\ new.local = {} /\ new.created = b.created
        /\ new.report = NoReport /\ new.seen = b.seen /\ new.ok = b.ok /\ new.totals = b.totals
        /\ new.failures = failures /\ new.base = b.base /\ new.named = {}
        /\ new.linked = {} /\ new.landed = b.landed
    BY DEF BatchTyped, Fields
  <2>2. Failed(b, stage) = new
    BY <1>2 DEF Failed
  <2>3. failure \in Failures /\ failure.stage = stage
    <3>1. request[Batch] \in Requests
      BY BatchAssumption DEF ArmsInv, RequestsOK, RequestOK
    <3>2. Len(request[Batch].tried) \in Nat
      BY <3>1 DEF Requests
    <3> QED
      BY <3>2 DEF Failures
  <2> HIDE DEF failure, new
  <2>4. b.failures \in Seq(Failures)
    BY DEF BatchTyped
  <2>5. /\ failures \in Seq(Failures) /\ Len(failures) = Len(b.failures) + 1
        /\ failures[Len(b.failures) + 1] = failure
        /\ \A i \in 1..Len(b.failures) : failures[i] = b.failures[i]
    BY <2>3, <2>4, AppendProperties
  <2> HIDE DEF failures
  <2>6. BatchTyped(new)
    BY <2>1, <2>5, Reported DEF BatchTyped
  <2>7. Positioned(new)
    BY <2>1 DEF Positioned, Working, Applying
  <2>8. Noted(new, tree)
    BY <2>1 DEF Noted, Applying
  <2>9. Matches(new, r, tree)
    BY <2>1 DEF Matches
  <2>10. Counted(new, program.file, Pending(new))
    <3>1. Pending(new) = 0
      BY <2>1 DEF Pending, Working, Applying
    <3>2. /\ ReadSo(b.rest, b.seen, program.file)
          /\ b.seen = b.ok + Len(b.failures) + 1
      BY <1>2 DEF Counted
    <3>3. b.ok \in Nat /\ Len(b.failures) \in Nat
      BY Numbers
    <3>4. new.seen = new.ok + Len(new.failures) + 0
      BY <2>1, <2>5, <3>2, <3>3
    <3> QED
      BY <2>1, <3>1, <3>2, <3>4 DEF Counted
  <2>11. Accounted(new, r, tree)
    <3>1. ~Partial(new) => stage # "apply" /\ ~Partial(b)
      <4>1. Len(b.failures) \in Nat
        BY Numbers
      <4>2. stage = "apply" => Partial(new)
        <5>1. Len(b.failures) + 1 \in 1..Len(new.failures)
          BY <2>1, <2>5, <4>1
        <5> QED
          BY <2>1, <2>3, <2>5, <5>1 DEF Partial
      <4>3. Partial(b) => Partial(new)
        <5>1. \A i \in 1..Len(b.failures) : i \in 1..Len(new.failures)
          BY <2>1, <2>5, <4>1
        <5> QED
          BY <2>1, <2>5, <5>1 DEF Partial
      <4> QED
        BY <4>2, <4>3
    <3>2. /\ new.base = b.base /\ ~new.created /\ new.pc # "upsert_edge"
          /\ new.totals = b.totals /\ new.report = NoReport
      BY <2>1
    <3>3. /\ new.base.entities + new.totals.entities + new.report.entities + 0
               = b.base.entities + b.totals.entities
          /\ new.totals.edges + new.report.edges + 0 = b.totals.edges
      BY <3>2, Reported, Numbers
    <3>4. Cardinality(Ents(tree)) >= b.base.entities + b.totals.entities
      BY <1>2
    <3>5. Grown(b.base, tree, b.totals.edges)
      BY <1>2
    <3>6. ~Partial(new) => Balance(b, tree, 0, 0, 0)
      BY <1>2, <3>1
    <3>7. Balance(new, tree, 0, 0, 0)
      BY <3>1, <3>2, <3>3, <3>4, <3>5, <3>6 DEF Balance
    <3> QED
      BY <3>2, <3>7 DEF Accounted
  <2> QED
    BY <1>2, <2>1, <2>2, <2>6, <2>7, <2>8, <2>9, <2>10, <2>11 DEF BatchInv
<1> QED
  BY <1>1, <1>2

\* An end of the triple at the head is resolved: it is stored, and it is
\* reported if it was created.
LEMMA EndResolved ==
    ASSUME NEW command, NEW file, BatchInv(batch, command, file, call[Batch], db),
           batch.pc \in {"resolve", "upsert"}, call[Batch].pc = "idle",
           Sourced(db, Id, batch.doc)
    PROVE  BatchInv(Resolved(batch), command, file, call[Batch], db)
<1> DEFINE new == Resolved(batch)
           ids == Append(batch.ids, Id)
           report == [batch.report EXCEPT !.entities = IF batch.created THEN @ + 1 ELSE @]
<1>1. BatchTyped(batch) /\ Positioned(batch) /\ Noted(batch, db)
  BY DEF BatchInv
<1>2. /\ DOMAIN new = Fields /\ new.pc = (IF batch.ids = <<>> THEN "resolve" ELSE "link")
      /\ new.triples = batch.triples /\ new.ids = ids
      /\ new.rest = batch.rest /\ new.doc = batch.doc /\ new.local = batch.local \cup {Name}
      /\ new.created = FALSE /\ new.report = report /\ new.seen = batch.seen /\ new.ok = batch.ok
      /\ new.totals = batch.totals /\ new.failures = batch.failures /\ new.base = batch.base
      /\ new.named = batch.named \cup {Id} /\ new.linked = batch.linked /\ new.landed = batch.landed
  BY <1>1 DEF BatchTyped, Fields, Resolved
<1> HIDE DEF new
<1>3. /\ batch.ids \in Seq(Entities) /\ Len(batch.ids) <= 1 /\ batch.triples # <<>>
      /\ batch.triples \in Seq(RawTriples) /\ batch.doc \in Docs /\ batch.pc \in Applying
  BY <1>1 DEF BatchTyped, Positioned, Applying, Working
<1>4. Name \in Names /\ Id \in Entities
  <2>1. Head(batch.triples) \in RawTriples
    BY <1>3
  <2>2. Name \in Names
    BY <2>1 DEF Name, RawTriples
  <2> QED
    BY <2>2, BatchAssumption DEF Id
<1>5. /\ ids \in Seq(Entities) /\ Len(ids) = Len(batch.ids) + 1 /\ ids[Len(batch.ids) + 1] = Id
      /\ \A i \in 1..Len(batch.ids) : ids[i] = batch.ids[i]
  BY <1>3, <1>4, AppendProperties
<1>6. batch.ids = <<>> => Len(ids) <= 1
  BY <1>5
<1>7. batch.ids # <<>> => Len(ids) = 2
  BY <1>3, <1>5
<1>8. Len(ids) <= 2
  BY <1>3, <1>5
<1>9. /\ report \in Reports /\ report.edges = batch.report.edges
      /\ report.skipped = batch.report.skipped
      /\ report.entities = batch.report.entities + (IF batch.created THEN 1 ELSE 0)
  <2> DEFINE n == IF batch.created THEN batch.report.entities + 1 ELSE batch.report.entities
  <2>1. batch.report \in Reports
    BY <1>1 DEF BatchTyped
  <2>2. n \in Nat /\ n = batch.report.entities + (IF batch.created THEN 1 ELSE 0)
    BY <2>1 DEF Reports
  <2>3. report = [batch.report EXCEPT !.entities = n]
    OBVIOUS
  <2> HIDE DEF n, report
  <2>4. /\ report \in Reports /\ report.edges = batch.report.edges
        /\ report.skipped = batch.report.skipped /\ report.entities = n
    BY <2>1, <2>2, <2>3 DEF Reports
  <2> QED
    BY <2>2, <2>4
<1> HIDE DEF ids, report
<1>10. BatchTyped(new)
  <2>1. new.pc \in {"resolve", "link"}
    BY <1>2
  <2>2. new.local \subseteq Names /\ new.created \in BOOLEAN
    BY <1>1, <1>2, <1>4 DEF BatchTyped
  <2> QED
    BY <1>1, <1>2, <1>5, <1>8, <1>9, <2>1, <2>2 DEF BatchTyped, Working, Applying
<1>11. Positioned(new)
  <2>1. /\ new.pc \in {"resolve", "link"} /\ ~new.created
        /\ new.triples # <<>> /\ new.doc \in Docs
    BY <1>2, <1>3
  <2>2. /\ new.pc = "resolve" => Len(new.ids) <= 1
        /\ new.pc = "link" => Len(new.ids) = 2
    BY <1>2, <1>6, <1>7
  <2>3. \A i \in 1..Len(ids) : ids[i] = IdOf[EndAt(batch, i)]
    <3>1. \A i \in 1..Len(ids) : i \in 1..Len(batch.ids) \/ i = Len(batch.ids) + 1
      BY <1>3, <1>5
    <3>2. \A i \in 1..Len(batch.ids) : batch.ids[i] = IdOf[EndAt(batch, i)]
      BY <1>1, <1>3 DEF Positioned
    <3>3. Id = IdOf[EndAt(batch, Len(batch.ids) + 1)]
      <4>1. Len(batch.ids) \in Nat /\ (batch.ids = <<>> <=> Len(batch.ids) = 0)
        BY <1>3
      <4>2. batch.ids = <<>> <=> Len(batch.ids) + 1 = 1
        BY <4>1
      <4> QED
        BY <4>2 DEF Id, Name, EndAt
    <3> QED
      BY <1>5, <3>1, <3>2, <3>3
  <2>4. \A i \in 1..Len(new.ids) : new.ids[i] = IdOf[EndAt(new, i)]
    BY <1>2, <2>3 DEF EndAt
  <2> QED
    BY <2>1, <2>2, <2>4 DEF Positioned, Working, Applying
<1>12. Noted(new, db)
  <2>1. \A e \in new.named : Sourced(db, e, new.doc)
    BY <1>1, <1>2 DEF Noted
  <2>2. /\ \A edge \in new.linked : LinkedIn(db, edge)
        /\ \A item \in new.landed.named : Sourced(db, item[1], item[2])
        /\ \A edge \in new.landed.linked : LinkedIn(db, edge)
    BY <1>1, <1>2 DEF Noted
  <2>3. \A i \in 1..Len(new.ids) : new.ids[i] \in new.named
    <3>1. \A i \in 1..Len(ids) : i \in 1..Len(batch.ids) \/ i = Len(batch.ids) + 1
      BY <1>3, <1>5
    <3>2. \A i \in 1..Len(batch.ids) : batch.ids[i] \in batch.named
      BY <1>1, <1>3 DEF Noted
    <3> QED
      BY <1>2, <1>5, <3>1, <3>2
  <2>4. \A name \in new.local : IdOf[name] \in new.named
    BY <1>1, <1>2, <1>3 DEF Noted, Id
  <2> QED
    BY <2>1, <2>2, <2>3, <2>4 DEF Noted
<1>13. Matches(new, call[Batch], db)
  BY <1>2 DEF Matches
<1>14. command = "ingest-batch" => Counted(new, file, Pending(new))
  <2>1. Pending(new) = 1 /\ Pending(batch) = 1 /\ batch.pc # "dead"
    BY <1>2, <1>3 DEF Pending, Working, Applying
  <2> QED
    BY <1>2, <2>1 DEF BatchInv, Counted
<1>15. command # "library" => Accounted(new, call[Batch], db)
  <2> SUFFICES ASSUME command # "library" PROVE Accounted(new, call[Batch], db)
    OBVIOUS
  <2> DEFINE k == IF batch.created THEN 1 ELSE 0
  <2>1. Balance(batch, db, k, 0, 0)
    BY <1>3 DEF BatchInv, Accounted
  <2>2. k \in Nat /\ new.report.entities = batch.report.entities + k
        /\ new.report.edges = batch.report.edges /\ new.report.skipped = batch.report.skipped
    BY <1>2, <1>9
  <2> HIDE DEF k
  <2>3. Partial(new) <=> Partial(batch)
    BY <1>2 DEF Partial
  <2>4. Balance(new, db, 0, 0, 0)
    <3>1. /\ batch.base.entities \in Nat /\ batch.totals.entities \in Nat
          /\ batch.report.entities \in Nat
      BY <1>1, Numbers
    <3>2. new.base = batch.base /\ new.totals = batch.totals
      BY <1>2
    <3>3. new.base.entities + new.totals.entities + new.report.entities + 0
          = batch.base.entities + batch.totals.entities + batch.report.entities + k
      BY <2>2, <3>1, <3>2
    <3> QED
      BY <2>1, <2>2, <2>3, <3>2, <3>3 DEF Balance
  <2>5. ~new.created /\ new.pc # "upsert_edge"
    BY <1>2
  <2> QED
    BY <2>4, <2>5 DEF Accounted
<1>16. command # "ingest-stub" => CleanTriples(new.triples)
  BY <1>2 DEF BatchInv
<1> QED
  BY <1>2, <1>10, <1>11, <1>12, <1>13, <1>14, <1>15, <1>16 DEF BatchInv, new

LEMMA TailFacts ==
    ASSUME NEW triples \in Seq(RawTriples), triples # <<>>
    PROVE  /\ Tail(triples) \in Seq(RawTriples)
           /\ CleanTriples(triples) => CleanTriples(Tail(triples))
<1>1. /\ Tail(triples) \in Seq(RawTriples) /\ Len(Tail(triples)) = Len(triples) - 1
      /\ \A i \in 1..(Len(triples) - 1) : Tail(triples)[i] = triples[i + 1]
  OBVIOUS
<1>2. Len(triples) \in Nat /\ \A i \in 1..(Len(triples) - 1) : i + 1 \in 1..Len(triples)
  OBVIOUS
<1> QED
  BY <1>1, <1>2 DEF CleanTriples

\* The edge is stored, and reported.
LEMMA EdgeLinked ==
    ASSUME NEW command, NEW file, BatchInv(batch, command, file, call[Batch], db),
           batch.pc = "upsert_edge", call[Batch].pc = "idle"
    PROVE  BatchInv(Linked(batch), command, file, call[Batch], db)
<1> DEFINE b == [batch EXCEPT !.report.edges = @ + 1, !.linked = @ \cup {Edge}]
           report == [batch.report EXCEPT !.edges = @ + 1]
<1>1. BatchTyped(batch) /\ Positioned(batch) /\ Noted(batch, db) /\ Matches(batch, call[Batch], db)
  BY DEF BatchInv
<1>2. /\ DOMAIN b = Fields /\ b.pc = batch.pc /\ b.triples = batch.triples /\ b.ids = batch.ids
      /\ b.rest = batch.rest /\ b.doc = batch.doc /\ b.local = batch.local
      /\ b.created = batch.created /\ b.report = report /\ b.seen = batch.seen /\ b.ok = batch.ok
      /\ b.totals = batch.totals /\ b.failures = batch.failures /\ b.base = batch.base
      /\ b.named = batch.named /\ b.linked = batch.linked \cup {Edge} /\ b.landed = batch.landed
  BY <1>1 DEF BatchTyped, Fields
<1>3. Linked(batch) = Apply(b, Tail(batch.triples))
  BY <1>2 DEF Linked
<1> HIDE DEF b
<1>4. /\ batch.triples # <<>> /\ batch.triples \in Seq(RawTriples) /\ batch.doc \in Docs
      /\ ~batch.created
  BY <1>1 DEF BatchTyped, Positioned, Applying, Working
<1>5. LinkedIn(db, Edge)
  BY <1>1 DEF Matches, Linking, Edge, EdgeAt
<1>6. /\ report \in Reports /\ report.edges = batch.report.edges + 1
      /\ report.entities = batch.report.entities /\ report.skipped = batch.report.skipped
  <2>1. batch.report \in Reports
    BY <1>1 DEF BatchTyped
  <2> QED
    BY <2>1 DEF Reports
<1> HIDE DEF report
<1>7. BatchTyped(b)
  BY <1>1, <1>2, <1>6 DEF BatchTyped
<1>8. Noted(b, db) /\ \A name \in b.local : IdOf[name] \in b.named
  <2>1. \A name \in batch.local : IdOf[name] \in batch.named
    BY <1>1 DEF Noted, Applying
  <2> QED
    BY <1>1, <1>2, <1>5, <2>1 DEF Noted
<1>9. command = "ingest-batch" => Counted(b, file, 1)
  <2>1. Pending(batch) = 1 /\ batch.pc # "dead"
    BY DEF Pending, Working, Applying
  <2> QED
    BY <1>2, <2>1 DEF BatchInv, Counted
<1>10. command # "library" => Balance(b, db, 0, 0, 0)
  <2> SUFFICES ASSUME command # "library" PROVE Balance(b, db, 0, 0, 0)
    OBVIOUS
  <2>1. Balance(batch, db, 0, 1, 0)
    BY <1>4 DEF BatchInv, Accounted
  <2>2. Partial(b) <=> Partial(batch)
    BY <1>2 DEF Partial
  <2> QED
    <3>1. /\ b.base = batch.base /\ b.totals = batch.totals
          /\ b.report.entities = batch.report.entities
          /\ b.report.edges = batch.report.edges + 1
          /\ b.report.skipped = batch.report.skipped
      BY <1>2, <1>6
    <3>2. /\ b.base.entities + b.totals.entities + b.report.entities + 0
             = batch.base.entities + batch.totals.entities + batch.report.entities + 0
          /\ b.totals.edges + b.report.edges + 0 = batch.totals.edges + batch.report.edges + 1
      <4>1. /\ batch.base.entities \in Nat /\ batch.totals.entities \in Nat
            /\ batch.report.entities \in Nat
            /\ batch.totals.edges \in Nat /\ batch.report.edges \in Nat
        BY <1>1, Numbers
      <4> QED
        BY <3>1, <4>1
    <3> QED
      BY <2>1, <2>2, <3>1, <3>2 DEF Balance
<1>11. /\ Tail(batch.triples) \in Seq(RawTriples)
       /\ command # "ingest-stub" => CleanTriples(Tail(batch.triples))
  BY <1>4, TailFacts DEF BatchInv
<1>12. ~b.created /\ b.doc \in Docs
  BY <1>2, <1>4
<1>13. BatchInv(Apply(b, Tail(batch.triples)), command, file, call[Batch], db)
  BY <1>7, <1>8, <1>9, <1>10, <1>11, <1>12, Applied
<1> QED
  BY <1>3, <1>13

\* The edge counts as skipped, whether or not the call that failed wrote it.
LEMMA EdgeSkipped ==
    ASSUME NEW command, NEW file, BatchInv(batch, command, file, call[Batch], db),
           \/ batch.pc = "link"
           \/ batch.pc = "upsert_edge" /\ call[Batch].pc # "idle",
           Countable(db), NEW r, r.pc = "idle"
    PROVE  BatchInv(Apply([batch EXCEPT !.report.skipped = @ + 1], Tail(batch.triples)),
                    command, file, r, db)
<1> DEFINE b == [batch EXCEPT !.report.skipped = @ + 1]
           report == [batch.report EXCEPT !.skipped = @ + 1]
<1>1. BatchTyped(batch) /\ Positioned(batch) /\ Noted(batch, db) /\ Matches(batch, call[Batch], db)
  BY DEF BatchInv
<1>2. /\ DOMAIN b = Fields /\ b.pc = batch.pc /\ b.triples = batch.triples /\ b.ids = batch.ids
      /\ b.rest = batch.rest /\ b.doc = batch.doc /\ b.local = batch.local
      /\ b.created = batch.created /\ b.report = report /\ b.seen = batch.seen /\ b.ok = batch.ok
      /\ b.totals = batch.totals /\ b.failures = batch.failures /\ b.base = batch.base
      /\ b.named = batch.named /\ b.linked = batch.linked /\ b.landed = batch.landed
  BY <1>1 DEF BatchTyped, Fields
<1>11. Apply([batch EXCEPT !.report.skipped = @ + 1], Tail(batch.triples))
       = Apply(b, Tail(batch.triples))
  BY <1>2
<1> HIDE DEF b
<1>3. /\ batch.triples # <<>> /\ batch.triples \in Seq(RawTriples) /\ batch.doc \in Docs
      /\ ~batch.created
  BY <1>1 DEF BatchTyped, Positioned, Applying, Working
<1>4. /\ report \in Reports /\ report.edges = batch.report.edges
      /\ report.entities = batch.report.entities /\ report.skipped = batch.report.skipped + 1
  <2>1. batch.report \in Reports
    BY <1>1 DEF BatchTyped
  <2> QED
    BY <2>1 DEF Reports
<1> HIDE DEF report
<1>5. BatchTyped(b)
  BY <1>1, <1>2, <1>4 DEF BatchTyped
<1>6. Noted(b, db) /\ \A name \in b.local : IdOf[name] \in b.named
  <2>1. \A name \in batch.local : IdOf[name] \in batch.named
    BY <1>1 DEF Noted, Applying
  <2> QED
    BY <1>1, <1>2, <2>1 DEF Noted
<1>7. command = "ingest-batch" => Counted(b, file, 1)
  <2>1. Pending(batch) = 1 /\ batch.pc # "dead"
    BY DEF Pending, Working, Applying
  <2> QED
    BY <1>2, <2>1 DEF BatchInv, Counted
<1>8. command # "library" => Balance(b, db, 0, 0, 0)
  <2> SUFFICES ASSUME command # "library" PROVE Balance(b, db, 0, 0, 0)
    OBVIOUS
  <2> DEFINE cut == IF batch.pc = "upsert_edge" /\ call[Batch].pc = "put_meta" THEN 1 ELSE 0
  <2>1. Balance(batch, db, 0, 0, cut)
    BY <1>3 DEF BatchInv, Accounted
  <2>2. Partial(b) <=> Partial(batch)
    BY <1>2 DEF Partial
  <2>3. cut \in {0, 1} /\ Cardinality(Links(db)) \in Nat
    BY Sizable
  <2> HIDE DEF cut
  <2>4. /\ b.base = batch.base /\ b.totals = batch.totals
        /\ b.report.entities = batch.report.entities /\ b.report.edges = batch.report.edges
        /\ b.report.skipped = batch.report.skipped + 1
    BY <1>2, <1>4
  <2>5. ~Partial(batch) =>
            Cardinality(Links(db)) <= b.base.edges + (b.totals.edges + b.report.edges + 0)
                                        + (b.totals.skipped + b.report.skipped) + 0
    <3> SUFFICES ASSUME ~Partial(batch)
                 PROVE  Cardinality(Links(db)) <= b.base.edges + (b.totals.edges + b.report.edges + 0)
                                        + (b.totals.skipped + b.report.skipped) + 0
      OBVIOUS
    <3>1. Cardinality(Links(db)) <= batch.base.edges + (batch.totals.edges + batch.report.edges + 0)
                                      + (batch.totals.skipped + batch.report.skipped) + cut
      BY <2>1 DEF Balance
    <3>2. /\ batch.base.edges \in Nat
          /\ batch.totals.edges \in Nat /\ batch.report.edges \in Nat
          /\ batch.totals.skipped \in Nat /\ batch.report.skipped \in Nat
      BY <1>1, Numbers
    <3> QED
      BY <2>3, <2>4, <3>1, <3>2
  <2> QED
    BY <2>1, <2>2, <2>4, <2>5 DEF Balance
<1>9. /\ Tail(batch.triples) \in Seq(RawTriples)
      /\ command # "ingest-stub" => CleanTriples(Tail(batch.triples))
  BY <1>3, TailFacts DEF BatchInv
<1>10. ~b.created /\ b.doc \in Docs
  BY <1>2, <1>3
<1>12. BatchInv(Apply(b, Tail(batch.triples)), command, file, r, db)
  BY <1>5, <1>6, <1>7, <1>8, <1>9, <1>10, Applied
<1> QED
  BY <1>11, <1>12

-----------------------------------------------------------------------------
(***************************************************************************)
(* The steps of the command that leave the store alone.                    *)
(***************************************************************************)

LEMMA ArmsStay ==
    ASSUME ArmsInv, UNCHANGED armVars
    PROVE  ArmsInv'
BY DEF ArmsInv, RequestsOK, CountersOK, armVars

LEMMA GoKeeps ==
    ASSUME IngestInv, NEW b, BatchInv(b, program.command, program.file, call[Batch], db),
           batch' = b, UNCHANGED <<armVars, storeVars, program>>
    PROVE  IngestInv'
<1>1. ArmsInv' /\ StoreInv'
  BY ArmsStay, StoreStays DEF IngestInv
<1>2. db' = db /\ disk' = disk /\ call' = call /\ program' = program
  BY DEF storeVars
<1> QED
  BY <1>1, <1>2 DEF IngestInv

\* A call of the store has failed, and has returned.
LEMMA ReturnKeeps ==
    ASSUME IngestInv, StoreInv', db' = db, disk' = disk, UNCHANGED <<armVars, program>>,
           NEW b, BatchInv(b, program.command, program.file, call'[Batch], db), batch' = b
    PROVE  IngestInv'
<1>1. ArmsInv'
  BY ArmsStay DEF IngestInv
<1> QED
  BY <1>1 DEF IngestInv

LEMMA TakenKeeps ==
    ASSUME IngestInv, NEW b, BatchInv(b, program.command, program.file, call[Batch], db),
           request[Batch].pc = "done", Taken(b)
    PROVE  IngestInv'
<1>1. /\ TreeOK(client) /\ request \in [Callers -> Requests]
      /\ AccountOK(client, hits, asked, request) /\ Batch \in Callers
  BY BatchAssumption DEF IngestInv, ArmsInv, RequestsOK, CountersOK
<1>2. /\ request' = [request EXCEPT ![Batch] = Unasked] /\ client' = client
      /\ hits' = hits /\ asked' = asked
  BY DEF Taken
<1>3. Unasked \in Requests /\ RequestOK(client, Unasked)
  BY <1>1, UnaskedOK
<1>4. RequestsOK'
  BY <1>1, <1>2, <1>3, OneMoves DEF IngestInv, ArmsInv
<1>5. CountersOK'
  <2>1. \A path : ~Enters(request[Batch], path) /\ ~Enters(Unasked, path)
    BY DEF Enters, Unasked
  <2>2. AccountOK(client, hits, asked, [request EXCEPT ![Batch] = Unasked])
    BY <1>1, <1>3, <2>1, AccountsStay
  <2> QED
    BY <1>2, <2>2 DEF CountersOK
<1>6. /\ StoreInv' /\ batch' = b
      /\ db' = db /\ disk' = disk /\ call' = call /\ program' = program
  BY StoreStays DEF IngestInv, Taken, storeVars
<1> QED
  BY <1>4, <1>5, <1>6 DEF IngestInv, ArmsInv

\* Between lines there is no call, and nothing noted of a line.
LEMMA BetweenLines ==
    ASSUME NEW b, NEW r, NEW tree, BatchTyped(b), Positioned(b), Matches(b, r, tree),
           b.pc \notin Applying
    PROVE  /\ r.pc = "idle" /\ ~b.created
           /\ b.report = NoReport /\ b.local = {} /\ b.named = {} /\ b.linked = {}
BY DEF BatchTyped, Positioned, Matches, Applying, Working

\* One line further, and one more seen unless it is blank.
LEMMA OneMoreRead ==
    ASSUME NEW file \in Seq(Lines), NEW rest \in Seq(Lines), rest # <<>>,
           NEW seen, ReadSo(rest, seen, file)
    PROVE  IF Head(rest) = "blank" THEN ReadSo(Tail(rest), seen, file)
                                   ELSE ReadSo(Tail(rest), seen + 1, file)
<1> DEFINE upto(n) == {i \in 1..n : file[i] # "blank"}
<1>1. PICK n \in 0..Len(file) :
          /\ Len(rest) = Len(file) - n
          /\ \A i \in 1..Len(rest) : rest[i] = file[n + i]
          /\ seen = Cardinality(upto(n))
  BY DEF ReadSo
<1>2. /\ Len(file) \in Nat /\ n \in Nat /\ Len(rest) \in Nat /\ Len(rest) # 0
      /\ Head(rest) = rest[1] /\ Len(Tail(rest)) = Len(rest) - 1
      /\ \A i \in 1..(Len(rest) - 1) : Tail(rest)[i] = rest[i + 1]
  OBVIOUS
<1> HIDE DEF upto
<1>3. n + 1 \in 0..Len(file) /\ Len(Tail(rest)) = Len(file) - (n + 1)
  BY <1>1, <1>2
<1>4. \A i \in 1..Len(Tail(rest)) : Tail(rest)[i] = file[(n + 1) + i]
  <2> SUFFICES ASSUME NEW i \in 1..Len(Tail(rest)) PROVE Tail(rest)[i] = file[(n + 1) + i]
    OBVIOUS
  <2>1. i \in 1..(Len(rest) - 1) /\ i + 1 \in 1..Len(rest) /\ n + (i + 1) = (n + 1) + i
    BY <1>2
  <2> QED
    BY <1>1, <1>2, <2>1
<1>5. file[n + 1] = Head(rest)
  BY <1>1, <1>2
<1>6. IsFiniteSet(upto(n)) /\ n + 1 \notin upto(n)
  <2>1. IsFiniteSet(1..n) /\ upto(n) \in SUBSET (1..n)
    BY <1>2, FS_Interval DEF upto
  <2> QED
    BY <1>2, <2>1, FS_Subset
<1>7. CASE Head(rest) = "blank"
  <2>1. upto(n + 1) = upto(n)
    BY <1>2, <1>5, <1>7 DEF upto
  <2>2. seen = Cardinality(upto(n + 1))
    BY <1>1, <2>1
  <2> QED
    BY <1>3, <1>4, <1>7, <2>2 DEF ReadSo, upto
<1>8. CASE Head(rest) # "blank"
  <2>1. upto(n + 1) = upto(n) \cup {n + 1}
    BY <1>2, <1>5, <1>8 DEF upto
  <2>2. seen + 1 = Cardinality(upto(n + 1))
    BY <1>1, <1>6, <2>1, FS_AddElement
  <2> QED
    BY <1>3, <1>4, <1>8, <2>2 DEF ReadSo, upto
<1> QED
  BY <1>7, <1>8

LEMMA ReadLineKeeps ==
    ASSUME IngestInv, read_line
    PROVE  IngestInv'
<1> DEFINE line == Head(batch.rest)
           rest == Tail(batch.rest)
           r == call[Batch]
           command == program.command
           file == program.file
<1>1. /\ batch.pc = "read" /\ batch.rest # <<>>
      /\ BatchInv(batch, command, file, r, db)
      /\ BatchTyped(batch) /\ Positioned(batch) /\ Noted(batch, db) /\ Matches(batch, r, db)
  BY DEF read_line, At, IngestInv, BatchInv
<1>2. /\ r.pc = "idle" /\ ~batch.created
      /\ batch.report = NoReport /\ batch.local = {} /\ batch.named = {} /\ batch.linked = {}
  BY <1>1 DEF Matches, Positioned, Applying
<1>3. file \in Seq(Lines) /\ batch.rest \in Seq(Lines)
  BY <1>1, BatchAssumption DEF IngestInv, BatchTyped
<1>4. rest \in Seq(Lines) /\ line \in Lines
  BY <1>1, <1>3
<1>5. command = "ingest-batch" =>
          IF line = "blank" THEN ReadSo(rest, batch.seen, file) ELSE ReadSo(rest, batch.seen + 1, file)
  BY <1>1, <1>3, OneMoreRead DEF BatchInv, Counted
<1>6. command = "ingest-batch" => batch.seen = batch.ok + Len(batch.failures)
  BY <1>1, Numbers DEF BatchInv, Counted, Pending, Working, Applying
<1>7. command # "library" => Balance(batch, db, 0, 0, 0)
  BY <1>1, <1>2 DEF BatchInv, Accounted
<1>8. command # "ingest-stub" => CleanTriples(batch.triples)
  BY <1>1 DEF BatchInv
<1>9. UNCHANGED <<armVars, storeVars, program>>
  BY DEF read_line, Go
<1> HIDE DEF line, rest, r, command, file
<1>10. CASE line = "blank"
  <2> DEFINE new == [batch EXCEPT !.rest = rest]
  <2>1. /\ DOMAIN new = Fields /\ new.pc = "read" /\ new.triples = batch.triples
        /\ new.ids = batch.ids /\ new.rest = rest /\ new.doc = batch.doc /\ new.local = {}
        /\ new.created = batch.created /\ new.report = NoReport /\ new.seen = batch.seen
        /\ new.ok = batch.ok /\ new.totals = batch.totals /\ new.failures = batch.failures
        /\ new.base = batch.base /\ new.named = {} /\ new.linked = {} /\ new.landed = batch.landed
    BY <1>1, <1>2 DEF BatchTyped, Fields
  <2>2. batch' = new
    BY <1>10 DEF read_line, Go, Skipped, line, rest
  <2> HIDE DEF new
  <2>3. BatchTyped(new)
    BY <1>1, <1>4, <2>1, Reported DEF BatchTyped
  <2>4. Positioned(new)
    BY <1>2, <2>1 DEF Positioned, Working, Applying
  <2>5. Noted(new, db)
    BY <1>1, <2>1 DEF Noted, Applying
  <2>6. Matches(new, r, db)
    BY <1>2, <2>1 DEF Matches
  <2>7. command = "ingest-batch" => Counted(new, file, Pending(new))
    <3>1. Pending(new) = 0
      BY <2>1 DEF Pending, Working, Applying
    <3> QED
      BY <1>1, <1>5, <1>6, <1>10, <2>1, <3>1, Numbers DEF Counted
  <2>8. command # "library" => Accounted(new, r, db)
    BY <1>2, <1>7, <2>1 DEF Accounted, Balance, Partial
  <2>9. BatchInv(new, command, file, r, db)
    BY <1>8, <2>1, <2>3, <2>4, <2>5, <2>6, <2>7, <2>8 DEF BatchInv
  <2> QED
    BY <1>9, <2>2, <2>9, GoKeeps DEF command, file, r
<1>11. CASE line = "unreadable"
  <2> DEFINE new == [batch EXCEPT !.pc = "error"]
  <2>1. /\ DOMAIN new = Fields /\ new.pc = "error" /\ new.triples = batch.triples
        /\ new.ids = batch.ids /\ new.rest = batch.rest /\ new.doc = batch.doc /\ new.local = {}
        /\ new.created = batch.created /\ new.report = NoReport /\ new.seen = batch.seen
        /\ new.ok = batch.ok /\ new.totals = batch.totals /\ new.failures = batch.failures
        /\ new.base = batch.base /\ new.named = {} /\ new.linked = {} /\ new.landed = batch.landed
    BY <1>1, <1>2 DEF BatchTyped, Fields
  <2>2. batch' = new
    BY <1>11 DEF read_line, Go, line
  <2> HIDE DEF new
  <2>3. BatchTyped(new)
    BY <1>1, <2>1, Reported DEF BatchTyped, Ended
  <2>4. Positioned(new)
    BY <1>2, <2>1 DEF Positioned, Working, Applying
  <2>5. Noted(new, db)
    BY <1>1, <2>1 DEF Noted, Applying
  <2>6. Matches(new, r, db)
    BY <1>2, <2>1 DEF Matches
  <2>7. command = "ingest-batch" => Counted(new, file, Pending(new))
    <3>1. Pending(new) = Pending(batch) /\ batch.pc # "dead"
      BY <1>1, <2>1 DEF Pending, Working, Applying, Ended
    <3> QED
      BY <1>1, <2>1, <3>1 DEF BatchInv, Counted
  <2>8. BatchInv(new, command, file, r, db)
    BY <1>8, <2>1, <2>3, <2>4, <2>5, <2>6, <2>7 DEF BatchInv
  <2> QED
    BY <1>9, <2>2, <2>8, GoKeeps DEF command, file, r
<1>12. CASE line = "bad"
  <2> DEFINE new == [batch EXCEPT !.rest = rest, !.seen = @ + 1, !.doc = "none"]
  <2>1. /\ DOMAIN new = Fields /\ new.pc = "read" /\ new.triples = batch.triples
        /\ new.ids = batch.ids /\ new.rest = rest /\ new.local = {}
        /\ new.created = batch.created /\ new.report = NoReport /\ new.seen = batch.seen + 1
        /\ new.ok = batch.ok /\ new.totals = batch.totals /\ new.failures = batch.failures
        /\ new.base = batch.base /\ new.named = {} /\ new.linked = {} /\ new.landed = batch.landed
    BY <1>1, <1>2 DEF BatchTyped, Fields
  <2>2. batch' = Failed(new, "parse")
    <3>1. new = [[batch EXCEPT !.rest = rest, !.seen = @ + 1] EXCEPT !.doc = "none"]
      BY <1>1 DEF BatchTyped, Fields
    <3> QED
      BY <1>12, <3>1 DEF read_line, Go, line, rest
  <2> HIDE DEF new
  <2>3. BatchTyped(new)
    BY <1>1, <1>4, <2>1, Reported DEF BatchTyped
  <2>4. Noted(new, db)
    BY <1>1, <2>1 DEF Noted, Applying
  <2>5. command = "ingest-batch" => Counted(new, file, 1)
    BY <1>1, <1>5, <1>6, <1>12, <2>1, Numbers DEF Counted
  <2>6. command # "library" => Balance(new, db, 0, 0, 0)
    BY <1>2, <1>7, <2>1 DEF Balance, Partial
  <2>7. command # "library" =>
            /\ Cardinality(Ents(db)) >= new.base.entities + new.totals.entities
            /\ Grown(new.base, db, new.totals.edges)
    <3>1. /\ new.base.entities + new.totals.entities + new.report.entities + 0
               = new.base.entities + new.totals.entities
          /\ new.totals.edges + new.report.edges + 0 = new.totals.edges
      BY <2>1, <2>3, Reported, Numbers
    <3> QED
      BY <2>6, <3>1 DEF Balance
  <2>8. ~new.created /\ CleanTriples(new.triples) = CleanTriples(batch.triples)
    BY <1>2, <2>1
  <2>9. BatchInv(Failed(new, "parse"), command, file, r, db)
    BY <1>2, <1>8, <2>1, <2>3, <2>4, <2>5, <2>6, <2>7, <2>8, LineFailed DEF IngestInv, command, file
  <2> QED
    BY <1>9, <2>2, <2>9, GoKeeps DEF command, file, r
<1>13. CASE line \notin {"blank", "unreadable", "bad"}
  <2> DEFINE new == [batch EXCEPT !.rest = rest, !.seen = @ + 1, !.doc = line, !.pc = "step"]
  <2>1. /\ DOMAIN new = Fields /\ new.pc = "step" /\ new.triples = batch.triples
        /\ new.ids = batch.ids /\ new.rest = rest /\ new.doc = line /\ new.local = {}
        /\ new.created = batch.created /\ new.report = NoReport /\ new.seen = batch.seen + 1
        /\ new.ok = batch.ok /\ new.totals = batch.totals /\ new.failures = batch.failures
        /\ new.base = batch.base /\ new.named = {} /\ new.linked = {} /\ new.landed = batch.landed
    BY <1>1, <1>2 DEF BatchTyped, Fields
  <2>2. batch' = new
    <3>1. new = [[batch EXCEPT !.rest = rest, !.seen = @ + 1] EXCEPT !.doc = line, !.pc = "step"]
      BY <1>1 DEF BatchTyped, Fields
    <3> QED
      BY <1>13, <3>1 DEF read_line, Go, line, rest
  <2> HIDE DEF new
  <2>3. line \in Docs
    BY <1>4, <1>13 DEF Lines
  <2>4. BatchTyped(new)
    BY <1>1, <1>4, <2>1, Reported, Numbers DEF BatchTyped, Working
  <2>5. Positioned(new)
    BY <1>2, <2>1, <2>3 DEF Positioned, Working, Applying
  <2>6. Noted(new, db)
    BY <1>1, <2>1 DEF Noted, Applying
  <2>7. Matches(new, r, db)
    BY <1>2, <2>1 DEF Matches
  <2>8. command = "ingest-batch" => Counted(new, file, Pending(new))
    <3>1. Pending(new) = 1
      BY <2>1 DEF Pending, Working, Applying
    <3> QED
      BY <1>1, <1>5, <1>6, <1>13, <2>1, <3>1, Numbers DEF Counted
  <2>9. command # "library" => Accounted(new, r, db)
    BY <1>2, <1>7, <2>1 DEF Accounted, Balance, Partial
  <2>10. BatchInv(new, command, file, r, db)
    BY <1>8, <2>1, <2>4, <2>5, <2>6, <2>7, <2>8, <2>9 DEF BatchInv
  <2> QED
    BY <1>9, <2>2, <2>10, GoKeeps DEF command, file, r
<1> QED
  BY <1>10, <1>11, <1>12, <1>13

LEMMA SummaryKeeps ==
    ASSUME IngestInv, summary
    PROVE  IngestInv'
<1> DEFINE r == call[Batch]
           new == [batch EXCEPT !.pc = "done"]
<1>1. /\ batch.pc = "read" /\ BatchInv(batch, program.command, program.file, r, db)
      /\ BatchTyped(batch) /\ Positioned(batch) /\ Noted(batch, db) /\ Matches(batch, r, db)
      /\ batch' = new /\ UNCHANGED <<armVars, storeVars, program>>
  BY DEF summary, Go, At, IngestInv, BatchInv
<1>2. /\ r.pc = "idle" /\ ~batch.created
      /\ batch.report = NoReport /\ batch.local = {} /\ batch.named = {} /\ batch.linked = {}
  BY <1>1 DEF Matches, Positioned, Applying
<1>3. /\ DOMAIN new = Fields /\ new.pc = "done" /\ new.triples = batch.triples
      /\ new.ids = batch.ids /\ new.rest = batch.rest /\ new.doc = batch.doc /\ new.local = {}
      /\ new.created = batch.created /\ new.report = NoReport /\ new.seen = batch.seen
      /\ new.ok = batch.ok /\ new.totals = batch.totals /\ new.failures = batch.failures
      /\ new.base = batch.base /\ new.named = {} /\ new.linked = {} /\ new.landed = batch.landed
  BY <1>1, <1>2 DEF BatchTyped, Fields
<1> HIDE DEF new, r
<1>4. BatchTyped(new)
  BY <1>1, <1>3, Reported DEF BatchTyped, Ended
<1>5. Positioned(new)
  BY <1>2, <1>3 DEF Positioned, Working, Applying
<1>6. Noted(new, db)
  BY <1>1, <1>3 DEF Noted, Applying
<1>7. Matches(new, r, db)
  BY <1>2, <1>3 DEF Matches
<1>8. program.command = "ingest-batch" => Counted(new, program.file, Pending(new))
  <2>1. Pending(new) = Pending(batch) /\ batch.pc # "dead"
    BY <1>1, <1>3 DEF Pending, Working, Applying
  <2> QED
    BY <1>1, <1>3, <2>1 DEF BatchInv, Counted
<1>9. program.command # "library" => Accounted(new, r, db)
  BY <1>1, <1>2, <1>3 DEF BatchInv, Accounted, Balance, Partial
<1>10. BatchInv(new, program.command, program.file, r, db)
  <2>1. new.rest = <<>>
    BY <1>3 DEF summary
  <2> QED
    BY <1>1, <1>3, <1>4, <1>5, <1>6, <1>7, <1>8, <1>9, <2>1 DEF BatchInv
<1> QED
  BY <1>1, <1>10, GoKeeps DEF r

LEMMA PolicyStepKeeps ==
    ASSUME IngestInv, policy_step
    PROVE  IngestInv'
<1> DEFINE r == call[Batch]
           new == [batch EXCEPT !.pc = "asked"]
<1>1. /\ batch.pc = "step" /\ BatchInv(batch, program.command, program.file, r, db)
      /\ BatchTyped(batch) /\ Positioned(batch) /\ Noted(batch, db) /\ Matches(batch, r, db)
      /\ batch' = new /\ UNCHANGED <<storeVars, program>>
  BY DEF policy_step, At, IngestInv, BatchInv
<1>2. /\ r.pc = "idle" /\ ~batch.created /\ batch.doc \in Docs
      /\ batch.report = NoReport /\ batch.local = {} /\ batch.named = {} /\ batch.linked = {}
  BY <1>1 DEF Matches, Positioned, Applying, Working
<1>3. /\ DOMAIN new = Fields /\ new.pc = "asked" /\ new.triples = batch.triples
      /\ new.ids = batch.ids /\ new.rest = batch.rest /\ new.doc = batch.doc /\ new.local = {}
      /\ new.created = batch.created /\ new.report = NoReport /\ new.seen = batch.seen
      /\ new.ok = batch.ok /\ new.totals = batch.totals /\ new.failures = batch.failures
      /\ new.base = batch.base /\ new.named = {} /\ new.linked = {} /\ new.landed = batch.landed
  BY <1>1, <1>2 DEF BatchTyped, Fields
<1> HIDE DEF new, r
<1>4. BatchTyped(new)
  BY <1>1, <1>3, Reported DEF BatchTyped, Working
<1>5. Positioned(new)
  BY <1>2, <1>3 DEF Positioned, Working, Applying
<1>6. Noted(new, db)
  BY <1>1, <1>3 DEF Noted, Applying
<1>7. Matches(new, r, db)
  BY <1>2, <1>3 DEF Matches
<1>8. program.command = "ingest-batch" => Counted(new, program.file, Pending(new))
  <2>1. Pending(new) = Pending(batch) /\ batch.pc # "dead"
    BY <1>1, <1>3 DEF Pending, Working, Applying
  <2> QED
    BY <1>1, <1>3, <2>1 DEF BatchInv, Counted
<1>9. program.command # "library" => Accounted(new, r, db)
  BY <1>1, <1>2, <1>3 DEF BatchInv, Accounted, Balance, Partial
<1>10. BatchInv(new, program.command, program.file, r, db)
  BY <1>1, <1>3, <1>4, <1>5, <1>6, <1>7, <1>8, <1>9 DEF BatchInv
<1>11. ArmsInv'
  <2>1. Call(Batch, "complete", TextOf[batch.doc]) /\ Batch \in Callers
    BY BatchAssumption DEF policy_step
  <2>2. TextOf[batch.doc] \in Texts
    BY <1>2, BatchAssumption
  <2> QED
    BY <2>1, <2>2, CallKeepsRequests, CallKeepsCounters DEF IngestInv, ArmsInv
<1>12. StoreInv'
  BY <1>1, StoreStays DEF IngestInv
<1>13. db' = db /\ disk' = disk /\ call' = call /\ program' = program
  BY <1>1 DEF storeVars
<1> QED
  BY <1>1, <1>10, <1>11, <1>12, <1>13 DEF IngestInv, r

\* What is known of the command when the triples of a document come in.
LEMMA BeforeApply ==
    ASSUME IngestInv, batch.pc \in {"step", "asked"}
    PROVE  /\ BatchTyped(batch) /\ batch.doc \in Docs /\ ~batch.created
           /\ call[Batch].pc = "idle" /\ Noted(batch, db)
           /\ batch.report = NoReport /\ batch.local = {} /\ batch.named = {} /\ batch.linked = {}
           /\ program.command = "ingest-batch" => Counted(batch, program.file, 1)
           /\ program.command # "library" => Balance(batch, db, 0, 0, 0)
           /\ program.command # "ingest-stub" => CleanTriples(batch.triples)
<1>1. BatchInv(batch, program.command, program.file, call[Batch], db)
  BY DEF IngestInv
<1>2. BatchTyped(batch) /\ Positioned(batch) /\ Noted(batch, db) /\ Matches(batch, call[Batch], db)
  BY <1>1 DEF BatchInv
<1>3. /\ batch.doc \in Docs /\ ~batch.created /\ call[Batch].pc = "idle"
      /\ batch.report = NoReport /\ batch.local = {} /\ batch.named = {} /\ batch.linked = {}
  BY <1>2 DEF Matches, Positioned, Applying, Working
<1>4. Pending(batch) = 1 /\ batch.pc # "dead" /\ batch.pc # "error"
  BY DEF Pending, Working
<1>5. program.command # "library" => Balance(batch, db, 0, 0, 0)
  BY <1>1, <1>3, <1>4 DEF BatchInv, Accounted
<1> QED
  BY <1>1, <1>2, <1>3, <1>4, <1>5 DEF BatchInv

LEMMA TriplesApplied ==
    ASSUME IngestInv, batch.pc \in {"step", "asked"}, NEW triples \in Seq(RawTriples),
           program.command # "ingest-stub" => CleanTriples(triples)
    PROVE  BatchInv(Apply(batch, triples), program.command, program.file, call[Batch], db)
<1>1. \A name \in batch.local : IdOf[name] \in batch.named
  BY BeforeApply
<1> QED
  BY <1>1, BeforeApply, Applied

LEMMA PolicyActionKeeps ==
    ASSUME IngestInv, NEW triples \in Envelopes, policy_action(triples)
    PROVE  IngestInv'
<1>1. Extracted(triples) \in Seq(RawTriples) /\ CleanTriples(Extracted(triples))
  BY BatchAssumption, ExtractedClean
<1>2. /\ batch.pc = "asked" /\ request[Batch].pc = "done"
      /\ Taken(Apply(batch, Extracted(triples)))
  BY DEF policy_action, Answered, At
<1>3. BatchInv(Apply(batch, Extracted(triples)), program.command, program.file, call[Batch], db)
  BY <1>1, <1>2, TriplesApplied
<1> QED
  BY <1>2, <1>3, TakenKeeps

LEMMA PolicyFailsKeeps ==
    ASSUME IngestInv, policy_fails
    PROVE  IngestInv'
<1>1. batch.pc = "asked" /\ request[Batch].pc = "done" /\ Taken(Failed(batch, "llm"))
  BY DEF policy_fails, Answered, At
<1>2. program.command # "library" =>
          /\ Cardinality(Ents(db)) >= batch.base.entities + batch.totals.entities
          /\ Grown(batch.base, db, batch.totals.edges)
          /\ Balance(batch, db, 0, 0, 0)
  <2>1. program.command # "library" => Balance(batch, db, 0, 0, 0)
    BY <1>1, BeforeApply
  <2>2. BatchTyped(batch) /\ batch.report = NoReport
    BY <1>1, BeforeApply
  <2>3. /\ batch.base.entities + batch.totals.entities + batch.report.entities + 0
             = batch.base.entities + batch.totals.entities
        /\ batch.totals.edges + batch.report.edges + 0 = batch.totals.edges
    BY <2>2, Reported, Numbers
  <2> QED
    BY <2>1, <2>3 DEF Balance
<1>3. BatchInv(Failed(batch, "llm"), program.command, program.file, call[Batch], db)
  BY <1>1, <1>2, BeforeApply, LineFailed DEF IngestInv
<1> QED
  BY <1>1, <1>3, TakenKeeps

LEMMA StubKeeps ==
    ASSUME IngestInv, NEW triples \in Envelopes, run_ingest_stub(triples)
    PROVE  IngestInv'
<1>1. /\ batch.pc = "step" /\ program.command = "ingest-stub"
      /\ batch' = Apply(batch, triples) /\ UNCHANGED <<armVars, storeVars, program>>
  BY DEF run_ingest_stub, At, Go
<1>2. triples \in Seq(RawTriples)
  BY BatchAssumption
<1>3. BatchInv(Apply(batch, triples), program.command, program.file, call[Batch], db)
  BY <1>1, <1>2, TriplesApplied
<1> QED
  BY <1>1, <1>3, GoKeeps

-----------------------------------------------------------------------------
(***************************************************************************)
(* The steps of apply.                                                     *)
(***************************************************************************)

\* A known end is stored with the document in both places: either this call
\* did it, or the entity has the document and the tree is consistent.
LEMMA ResolveKnownKeeps ==
    ASSUME IngestInv, resolve_known
    PROVE  IngestInv'
<1>1. /\ batch.pc = "resolve" /\ Known(Name, Id) /\ batch' = Resolved(batch)
      /\ UNCHANGED <<armVars, storeVars, program>>
      /\ BatchInv(batch, program.command, program.file, call[Batch], db)
  BY DEF resolve_known, At, Go, IngestInv
<1>2. call[Batch].pc = "idle" /\ Noted(batch, db)
  BY <1>1 DEF BatchInv, Matches
<1>3. Sourced(db, Id, batch.doc)
  <2>1. CASE Name \in batch.local
    <3>1. Id \in batch.named
      BY <1>1, <1>2, <2>1 DEF Noted, Applying, Id
    <3> QED
      BY <1>2, <3>1 DEF Noted
  <2>2. CASE Store!Has(Id) /\ batch.doc \in db.rows[Store!ent_key(Id)]
    <3> DEFINE key == Store!ent_key(Id)
    <3>1. key \in DOMAIN db.rows
      BY <2>2 DEF Store!Has
    <3>2. key \in Tree!Table(db.rows, Tree!K_ENT) /\ key[2] = Id
      BY <3>1, KeysDiffer, SameKeys DEF Tree!Table
    <3>3. Tree!Consistent(db.rows)
      BY TreeShape DEF IngestInv
    <3>4. db.rows[key] \subseteq Tree!GetOr(db.rows, Tree!doc_key(Id), {})
      BY <3>2, <3>3 DEF Tree!Consistent
    <3>5. Store!doc_key(Id) \in DOMAIN db.rows /\ batch.doc \in db.rows[Store!doc_key(Id)]
      BY <2>2, <3>4, SameKeys DEF Tree!GetOr
    <3> QED
      BY <2>2, <3>1, <3>5 DEF Sourced
  <2> QED
    BY <1>1, <2>1, <2>2 DEF Known
<1>4. BatchInv(Resolved(batch), program.command, program.file, call[Batch], db)
  BY <1>1, <1>2, <1>3, EndResolved
<1> QED
  BY <1>1, <1>4, GoKeeps

LEMMA ResolvedKeeps ==
    ASSUME IngestInv, resolved
    PROVE  IngestInv'
<1>1. /\ batch.pc = "upsert" /\ call[Batch].pc = "idle" /\ batch' = Resolved(batch)
      /\ UNCHANGED <<armVars, storeVars, program>>
      /\ BatchInv(batch, program.command, program.file, call[Batch], db)
  BY DEF resolved, At, Go, IngestInv
<1>2. Sourced(db, Id, batch.doc)
  BY <1>1 DEF BatchInv, Matches, Upserting, Id, Name, NameAt
<1>3. BatchInv(Resolved(batch), program.command, program.file, call[Batch], db)
  BY <1>1, <1>2, EndResolved
<1> QED
  BY <1>1, <1>3, GoKeeps

LEMMA LinkedKeeps ==
    ASSUME IngestInv, linked
    PROVE  IngestInv'
<1>1. /\ batch.pc = "upsert_edge" /\ call[Batch].pc = "idle" /\ batch' = Linked(batch)
      /\ UNCHANGED <<armVars, storeVars, program>>
      /\ BatchInv(batch, program.command, program.file, call[Batch], db)
  BY DEF linked, At, Go, IngestInv
<1>2. BatchInv(Linked(batch), program.command, program.file, call[Batch], db)
  BY <1>1, EdgeLinked
<1> QED
  BY <1>1, <1>2, GoKeeps

LEMMA LinkFailsKeeps ==
    ASSUME IngestInv, link_fails
    PROVE  IngestInv'
<1> DEFINE new == Apply([batch EXCEPT !.report.skipped = @ + 1], Tail(batch.triples))
<1>1. /\ batch' = new /\ UNCHANGED <<armVars, program>>
      /\ BatchInv(batch, program.command, program.file, call[Batch], db) /\ Countable(db)
  BY DEF link_fails, Fault, IngestInv
<1>2. CASE batch.pc = "link" /\ UNCHANGED storeVars
  <2>1. call[Batch].pc = "idle"
    BY <1>1, <1>2 DEF BatchInv, Matches
  <2>2. BatchInv(new, program.command, program.file, call[Batch], db)
    BY <1>1, <1>2, <2>1, EdgeSkipped
  <2> HIDE DEF new
  <2> QED
    BY <1>1, <1>2, <2>2, GoKeeps
<1>3. CASE batch.pc = "upsert_edge" /\ Store!fails(Batch)
  <2>1. StoreInv' /\ db' = db /\ disk' = disk /\ call'[Batch] = Store!Idle
    BY <1>3, FailsDoes DEF IngestInv
  <2>2. call[Batch].pc # "idle" /\ call'[Batch].pc = "idle"
    BY <1>3, <2>1 DEF Store!fails, Store!At, Store!Idle
  <2>3. BatchInv(new, program.command, program.file, call'[Batch], db)
    BY <1>1, <1>3, <2>2, EdgeSkipped
  <2> HIDE DEF new
  <2> QED
    BY <1>1, <2>1, <2>3, ReturnKeeps
<1> QED
  BY <1>2, <1>3 DEF link_fails, At

\* The line fails in apply: what it stored is in the store, and in no total.
LEMMA ResolveFailsKeeps ==
    ASSUME IngestInv, resolve_fails
    PROVE  IngestInv'
<1> DEFINE new == [batch EXCEPT !.triples = <<>>, !.ids = <<>>, !.report = NoReport,
                                !.created = FALSE, !.local = {}, !.named = {}, !.linked = {}]
<1>1. /\ batch.pc \in {"resolve", "upsert"}
      /\ BatchInv(batch, program.command, program.file, call[Batch], db)
      /\ BatchTyped(batch) /\ Positioned(batch) /\ Noted(batch, db)
      /\ Matches(batch, call[Batch], db)
      /\ batch' = Failed(new, "apply") /\ UNCHANGED <<armVars, program>>
  BY DEF resolve_fails, Fault, At, IngestInv, BatchInv
<1>2. /\ StoreInv' /\ db' = db /\ disk' = disk /\ call'[Batch].pc = "idle"
      /\ ~(batch.created /\ call[Batch].pc = "idle")
  <2>1. CASE batch.pc = "resolve" /\ UNCHANGED storeVars
    <3>1. call[Batch].pc = "idle" /\ ~batch.created
      BY <1>1, <2>1 DEF Matches, Positioned
    <3> QED
      BY <2>1, <3>1, StoreStays DEF IngestInv, storeVars
  <2>2. CASE batch.pc = "upsert" /\ Store!fails(Batch)
    <3>1. StoreInv' /\ db' = db /\ disk' = disk /\ call'[Batch] = Store!Idle
      BY <2>2, FailsDoes DEF IngestInv
    <3>2. call[Batch].pc # "idle" /\ call'[Batch].pc = "idle"
      BY <2>2, <3>1 DEF Store!fails, Store!At, Store!Idle
    <3> QED
      BY <3>1, <3>2
  <2> QED
    BY <2>1, <2>2 DEF resolve_fails, At
<1>3. /\ DOMAIN new = Fields /\ new.pc = batch.pc /\ new.triples = <<>>
      /\ new.ids = <<>> /\ new.rest = batch.rest /\ new.doc = batch.doc /\ new.local = {}
      /\ new.created = FALSE /\ new.report = NoReport /\ new.seen = batch.seen
      /\ new.ok = batch.ok /\ new.totals = batch.totals /\ new.failures = batch.failures
      /\ new.base = batch.base /\ new.named = {} /\ new.linked = {} /\ new.landed = batch.landed
  BY <1>1 DEF BatchTyped, Fields
<1> HIDE DEF new
<1>4. BatchTyped(new)
  <2>1. new.triples \in Seq(RawTriples) /\ new.ids \in Seq(Entities)
    BY <1>3
  <2>2. Len(new.ids) = 0 /\ new.created \in BOOLEAN /\ new.report \in Reports
    BY <1>3, Reported
  <2>3. Len(new.ids) <= 2
    BY <2>2
  <2> QED
    BY <1>1, <1>3, <2>1, <2>2, <2>3 DEF BatchTyped
<1>5. Noted(new, db)
  <2>1. Len(new.ids) = 0
    BY <1>3
  <2> QED
    BY <1>1, <1>3, <2>1 DEF Noted
<1>6. program.command = "ingest-batch" => Counted(new, program.file, 1)
  <2>1. Pending(batch) = 1 /\ batch.pc # "dead"
    BY <1>1 DEF Pending, Working, Applying
  <2> QED
    BY <1>1, <1>3, <2>1 DEF BatchInv, Counted
<1>7. program.command # "library" =>
          /\ Cardinality(Ents(db)) >= new.base.entities + new.totals.entities
          /\ Grown(new.base, db, new.totals.edges)
  <2> SUFFICES ASSUME program.command # "library"
               PROVE  /\ Cardinality(Ents(db)) >= new.base.entities + new.totals.entities
                      /\ Grown(new.base, db, new.totals.edges)
    OBVIOUS
  <2> DEFINE n == batch.totals.edges + batch.report.edges + 0
  <2>1. Balance(batch, db, 0, 0, 0)
    BY <1>1, <1>2 DEF BatchInv, Accounted
  <2>2. Countable(db) /\ Cardinality(Ents(db)) \in Nat
    BY Sizable DEF IngestInv
  <2>3. Cardinality(Ents(db)) >= new.base.entities + new.totals.entities
    BY <1>1, <1>3, <2>1, <2>2, Numbers DEF Balance
  <2>4. Grown(batch.base, db, n)
    BY <2>1 DEF Balance
  <2>5. n \in Nat /\ batch.totals.edges \in Nat /\ batch.totals.edges <= n /\ batch.base \in Sizes
    BY <1>1, Numbers
  <2> HIDE DEF n
  <2>6. Grown(batch.base, db, batch.totals.edges)
    BY <2>2, <2>4, <2>5, GrownLess
  <2> QED
    BY <1>3, <2>3, <2>6
<1>8. CleanTriples(new.triples)
  <2>1. Len(new.triples) = 0
    BY <1>3
  <2> QED
    BY <2>1 DEF CleanTriples
<1>9. ~new.created /\ new.report = NoReport /\ new.local = {} /\ new.named = {} /\ new.linked = {}
  BY <1>3
<1>10. BatchInv(Failed(new, "apply"), program.command, program.file, call'[Batch], db)
  BY <1>2, <1>4, <1>5, <1>6, <1>7, <1>8, <1>9, LineFailed DEF IngestInv
<1> QED
  BY <1>1, <1>2, <1>10, ReturnKeeps

LEMMA ResolveKeeps ==
    ASSUME IngestInv, resolve
    PROVE  IngestInv'
<1> DEFINE r == call'[Batch]
           sources == {batch.doc} \cup (IF Store!Has(Id) THEN Sources ELSE {})
           new == [batch EXCEPT !.pc = "upsert", !.created = ~Store!Has(Id)]
<1>1. /\ batch.pc = "resolve" /\ BatchInv(batch, program.command, program.file, call[Batch], db)
      /\ BatchTyped(batch) /\ Positioned(batch) /\ Noted(batch, db)
      /\ Matches(batch, call[Batch], db) /\ batch' = new /\ UNCHANGED <<armVars, program>>
      /\ Store!upsert_entity(Batch, Id, sources) /\ StoreInv
  BY DEF resolve, At, IngestInv, BatchInv
<1>2. /\ ~batch.created /\ batch.doc \in Docs /\ batch.triples # <<>> /\ Len(batch.ids) <= 1
      /\ batch.triples \in Seq(RawTriples)
  BY <1>1 DEF Positioned, Applying, Working, BatchTyped
<1>3. Id \in Entities
  <2>1. Head(batch.triples) \in RawTriples
    BY <1>2
  <2>2. Name \in Names
    BY <2>1 DEF Name, RawTriples
  <2> QED
    BY <2>2, BatchAssumption DEF Id
<1>4. sources \in SUBSET Docs
  <2>1. Store!Has(Id) => Sources \subseteq Docs
    <3> DEFINE key == Store!ent_key(Id)
    <3>1. \A k \in DOMAIN db.rows : Tree!ValueOK(k, db.rows[k])
      BY <1>1, TreeShape DEF Tree!RowsOK
    <3>2. key[1] # Tree!K_OUT
      BY KeysDiffer, SameKeys DEF Store!K_ENT, Store!K_OUT
    <3> HIDE DEF key
    <3> QED
      BY <3>1, <3>2 DEF Store!Has, Sources, Tree!ValueOK, key
  <2> QED
    BY <1>2, <2>1
<1>5. batch.doc \in sources /\ (Store!Has(Id) => Sources \subseteq sources)
  OBVIOUS
<1> HIDE DEF sources
<1>6. StoreInv' /\ db' = db /\ r.pc \in {"put_docs", "put_entity"} /\ r.id = Id /\ r.sources = sources
  BY <1>1, <1>3, <1>4, UpsertStarts
<1>7. Upserting(r, db, Id, batch.doc)
  BY <1>5, <1>6 DEF Upserting, Store!Has, Sources
<1>8. /\ DOMAIN new = Fields /\ new.pc = "upsert" /\ new.triples = batch.triples
      /\ new.ids = batch.ids /\ new.rest = batch.rest /\ new.doc = batch.doc
      /\ new.local = batch.local /\ new.created = ~Store!Has(Id) /\ new.report = batch.report
      /\ new.seen = batch.seen /\ new.ok = batch.ok /\ new.totals = batch.totals
      /\ new.failures = batch.failures /\ new.base = batch.base /\ new.named = batch.named
      /\ new.linked = batch.linked /\ new.landed = batch.landed
  BY <1>1 DEF BatchTyped, Fields
<1> HIDE DEF new, r
<1>9. BatchTyped(new)
  <2>1. new.created \in BOOLEAN
    BY <1>8
  <2> QED
    BY <1>1, <1>8, <2>1 DEF BatchTyped, Working, Applying
<1>10. Positioned(new)
  <2>1. \A i \in 1..Len(new.ids) : new.ids[i] = IdOf[EndAt(new, i)]
    BY <1>1, <1>8 DEF Positioned, Applying, EndAt
  <2> QED
    BY <1>2, <1>8, <2>1 DEF Positioned, Working, Applying
<1>11. Noted(new, db)
  BY <1>1, <1>8 DEF Noted, Applying
<1>12. Matches(new, r, db)
  <2>1. IdOf[NameAt(new)] = Id
    BY <1>8 DEF NameAt, Id, Name
  <2> QED
    BY <1>7, <1>8, <2>1 DEF Matches, Store!Has
<1>13. program.command = "ingest-batch" => Counted(new, program.file, Pending(new))
  <2>1. Pending(new) = Pending(batch) /\ batch.pc # "dead"
    BY <1>1, <1>8 DEF Pending, Working, Applying
  <2> QED
    BY <1>1, <1>8, <2>1 DEF BatchInv, Counted
<1>14. program.command # "library" => Accounted(new, r, db)
  <2>1. r.pc # "idle" /\ new.pc # "upsert_edge" /\ batch.pc \notin {"error", "dead", "upsert_edge"}
    BY <1>1, <1>6, <1>8
  <2> QED
    BY <1>1, <1>2, <1>8, <2>1 DEF BatchInv, Accounted, Balance, Partial
<1>15. BatchInv(new, program.command, program.file, r, db)
  BY <1>1, <1>8, <1>9, <1>10, <1>11, <1>12, <1>13, <1>14 DEF BatchInv
<1>16. disk' = disk
  BY <1>1 DEF Store!upsert_entity, Store!Upsert, Store!Start
<1>17. ArmsInv'
  BY <1>1, ArmsStay DEF IngestInv
<1> QED
  BY <1>1, <1>6, <1>15, <1>16, <1>17 DEF IngestInv, r

LEMMA LinkKeeps ==
    ASSUME IngestInv, link
    PROVE  IngestInv'
<1> DEFINE r == call'[Batch]
           new == [batch EXCEPT !.pc = "upsert_edge"]
<1>1. /\ batch.pc = "link" /\ BatchInv(batch, program.command, program.file, call[Batch], db)
      /\ BatchTyped(batch) /\ Positioned(batch) /\ Noted(batch, db)
      /\ Matches(batch, call[Batch], db) /\ batch' = new /\ UNCHANGED <<armVars, program>>
      /\ Store!upsert_edge(Batch, Edge) /\ StoreInv
  BY DEF link, At, IngestInv, BatchInv
<1>2. /\ ~batch.created /\ batch.doc \in Docs /\ batch.triples # <<>> /\ Len(batch.ids) = 2
      /\ batch.ids \in Seq(Entities)
  BY <1>1 DEF Positioned, Applying, Working, BatchTyped
<1>3. Edge \in EdgeRows
  <2>1. Head(batch.triples) \in RawTriples
    BY <1>1, <1>2 DEF BatchTyped
  <2> QED
    BY <1>2, <2>1 DEF Edge, EdgeRows, RawTriples
<1>4. StoreInv' /\ db' = db /\ Linking(r, Edge) /\ r.pc # "put_meta"
  BY <1>1, <1>3, EdgeStarts
<1>5. /\ DOMAIN new = Fields /\ new.pc = "upsert_edge" /\ new.triples = batch.triples
      /\ new.ids = batch.ids /\ new.rest = batch.rest /\ new.doc = batch.doc
      /\ new.local = batch.local /\ new.created = batch.created /\ new.report = batch.report
      /\ new.seen = batch.seen /\ new.ok = batch.ok /\ new.totals = batch.totals
      /\ new.failures = batch.failures /\ new.base = batch.base /\ new.named = batch.named
      /\ new.linked = batch.linked /\ new.landed = batch.landed
  BY <1>1 DEF BatchTyped, Fields
<1> HIDE DEF new, r
<1>6. BatchTyped(new)
  BY <1>1, <1>5 DEF BatchTyped, Working, Applying
<1>7. Positioned(new)
  <2>1. \A i \in 1..Len(new.ids) : new.ids[i] = IdOf[EndAt(new, i)]
    BY <1>1, <1>5 DEF Positioned, Applying, EndAt
  <2> QED
    BY <1>2, <1>5, <2>1 DEF Positioned, Working, Applying
<1>8. Noted(new, db)
  BY <1>1, <1>5 DEF Noted, Applying
<1>9. Matches(new, r, db)
  <2>1. EdgeAt(new) = Edge
    BY <1>5 DEF EdgeAt, Edge
  <2> QED
    BY <1>4, <1>5, <2>1 DEF Matches
<1>10. program.command = "ingest-batch" => Counted(new, program.file, Pending(new))
  <2>1. Pending(new) = Pending(batch) /\ batch.pc # "dead"
    BY <1>1, <1>5 DEF Pending, Working, Applying
  <2> QED
    BY <1>1, <1>5, <2>1 DEF BatchInv, Counted
<1>11. program.command # "library" => Accounted(new, r, db)
  <2>1. r.pc \notin {"idle", "put_meta"} /\ batch.pc \notin {"error", "dead", "upsert_edge"}
    BY <1>1, <1>4 DEF Linking
  <2> QED
    BY <1>1, <1>2, <1>5, <2>1 DEF BatchInv, Accounted, Balance, Partial
<1>12. BatchInv(new, program.command, program.file, r, db)
  BY <1>1, <1>5, <1>6, <1>7, <1>8, <1>9, <1>10, <1>11 DEF BatchInv
<1>13. disk' = disk
  BY <1>1 DEF Store!upsert_edge, Store!Start
<1>14. ArmsInv'
  BY <1>1, ArmsStay DEF IngestInv
<1> QED
  BY <1>1, <1>4, <1>12, <1>13, <1>14 DEF IngestInv, r

-----------------------------------------------------------------------------
(***************************************************************************)
(* The steps of a call of the store.                                       *)
(***************************************************************************)

LEMMA StillNoted ==
    ASSUME NEW b, NEW tree, NEW new, Noted(b, tree), Grows(tree, new)
    PROVE  Noted(b, new)
<1>1. \A edge : LinkedIn(tree, edge) => LinkedIn(new, edge)
  BY DEF Grows, LinkedIn
<1> QED
  BY <1>1 DEF Noted, Grows

LEMMA StoreMoves ==
    ASSUME IngestInv, StoreInv', UNCHANGED <<armVars, program, batch>>, disk' = disk,
           Grows(db, db'), Countable(db'), program.command # "ingest-stub" => CleanTree(db'),
           Matches(batch, call'[Batch], db'),
           program.command # "library" /\ batch.pc \notin {"error", "dead"} =>
               Accounted(batch, call'[Batch], db')
    PROVE  IngestInv'
<1>1. ArmsInv'
  BY ArmsStay DEF IngestInv
<1>2. BatchInv(batch, program.command, program.file, call[Batch], db)
  BY DEF IngestInv
<1>3. BatchTyped(batch) /\ Positioned(batch) /\ Noted(batch, db)
  BY <1>2 DEF BatchInv
<1>4. Noted(batch, db')
  BY <1>3, StillNoted
<1>5. BatchInv(batch, program.command, program.file, call'[Batch], db')
  BY <1>2, <1>3, <1>4 DEF BatchInv
<1> QED
  BY <1>1, <1>5 DEF IngestInv

LEMMA StoreStepKeeps ==
    ASSUME IngestInv, store_step
    PROVE  IngestInv'
<1> DEFINE r == call[Batch]
           id == IdOf[NameAt(batch)]
           edge == EdgeAt(batch)
<1>1. /\ BatchInv(batch, program.command, program.file, r, db)
      /\ BatchTyped(batch) /\ Positioned(batch) /\ Noted(batch, db) /\ Matches(batch, r, db)
      /\ StoreInv /\ StoreStep /\ UNCHANGED <<armVars, program, batch>>
  BY DEF store_step, StoreStep, IngestInv, BatchInv
<1>2. /\ Countable(db) /\ disk' = disk
      /\ program.command # "ingest-stub" => CleanTree(db) /\ CleanTriples(batch.triples)
  BY <1>1 DEF IngestInv, BatchInv, StoreStep, Store!put_docs, Store!put_entity, Store!check_dst,
              Store!read_meta, Store!put_edge, Store!put_meta, Store!Read, Store!Write
<1>3. r.pc # "idle"
  BY <1>1 DEF StoreStep, Store!put_docs, Store!put_entity, Store!check_dst,
              Store!read_meta, Store!put_edge, Store!put_meta, Store!At
<1>4. batch.pc \in {"upsert", "upsert_edge"}
  BY <1>1, <1>3 DEF Matches
<1> HIDE DEF id, edge, r
<1>5. CASE batch.pc = "upsert"
  <2>1. Upserting(r, db, id, batch.doc) /\ (batch.created <=> Store!ent_key(id) \notin DOMAIN db.rows)
    BY <1>1, <1>3, <1>5 DEF Matches, id
  <2>2. program.command # "library" => Balance(batch, db, 0, 0, 0)
    BY <1>1, <1>3, <1>5 DEF BatchInv, Accounted
  <2>3. \A tree : Store!ent_key(id) \in DOMAIN tree.rows <=> Store!ent_key(id) \in Ents(tree)
    BY KeysDiffer DEF Ents, Store!Table
  <2>4. CASE Store!put_docs(Batch)
    <3>1. /\ StoreInv' /\ Grows(db, db') /\ Ents(db') = Ents(db) /\ SameLinks(db, db')
          /\ Upserting(call'[Batch], db', id, batch.doc)
      BY <1>1, <2>1, <2>4, PutDocsDoes DEF r
    <3>2. Countable(db') /\ (program.command # "ingest-stub" => CleanTree(db'))
      BY <1>2, <3>1 DEF Countable, CleanTree, SameLinks
    <3>3. Matches(batch, call'[Batch], db')
      BY <1>5, <2>1, <2>3, <3>1 DEF Matches, id
    <3>4. program.command # "library" => Accounted(batch, call'[Batch], db')
      <4>1. call'[Batch].pc # "idle"
        BY <3>1 DEF Upserting
      <4> QED
        BY <1>5, <2>2, <3>1, <4>1 DEF Accounted, Balance, Grown, SameLinks
    <3> QED
      BY <1>1, <1>2, <3>1, <3>2, <3>3, <3>4, StoreMoves
  <2>5. CASE Store!put_entity(Batch)
    <3> DEFINE key == Store!ent_key(id)
    <3>1. /\ StoreInv' /\ Grows(db, db') /\ call'[Batch] = Store!Idle
          /\ Ents(db') = Ents(db) \cup {key} /\ SameLinks(db, db')
          /\ Sourced(db', id, batch.doc)
      BY <1>1, <2>1, <2>5, PutEntityDoes DEF r
    <3>2. key[2] = id
      BY KeysDiffer
    <3> HIDE DEF key
    <3>3. /\ Countable(db')
          /\ Cardinality(Ents(db')) = Cardinality(Ents(db)) + (IF batch.created THEN 1 ELSE 0)
      <4>1. IsFiniteSet(Ents(db)) /\ IsFiniteSet(Links(db'))
        BY <1>2, <3>1 DEF Countable, SameLinks
      <4>2. /\ IsFiniteSet(Ents(db) \cup {key})
            /\ Cardinality(Ents(db) \cup {key}) =
                  IF key \in Ents(db) THEN Cardinality(Ents(db)) ELSE Cardinality(Ents(db)) + 1
        BY <4>1, FS_AddElement
      <4>3. batch.created <=> key \notin Ents(db)
        BY <2>1, <2>3 DEF key
      <4>4. Cardinality(Ents(db)) \in Nat
        BY <4>1, FS_CardinalityType
      <4> QED
        BY <3>1, <4>1, <4>2, <4>3, <4>4 DEF Countable
    <3>4. program.command # "ingest-stub" => CleanTree(db')
      <4> SUFFICES ASSUME program.command # "ingest-stub" PROVE CleanTree(db')
        OBVIOUS
      <4>1. batch.triples \in Seq(RawTriples) /\ batch.triples # <<>>
        BY <1>1, <1>5 DEF BatchTyped, Positioned, Applying
      <4>2. Head(batch.triples) = batch.triples[1] /\ 1 \in 1..Len(batch.triples)
        BY <4>1
      <4>3. CleanTriple(Head(batch.triples))
        BY <1>2, <4>2 DEF CleanTriples
      <4>4. CleanEntity(id)
        BY <4>3 DEF CleanTriple, CleanEntity, NameAt, id
      <4>5. CleanTree(db)
        BY <1>2
      <4>6. \A k \in Ents(db') : CleanEntity(k[2])
        BY <3>1, <3>2, <4>4, <4>5 DEF CleanTree
      <4>7. \A k \in Links(db') : CleanEdge(db'.rows[k])
        BY <3>1, <4>5 DEF CleanTree, SameLinks
      <4> QED
        BY <4>6, <4>7 DEF CleanTree
    <3>5. Matches(batch, call'[Batch], db')
      BY <1>5, <3>1 DEF Matches, id, Store!Idle
    <3>6. program.command # "library" => Accounted(batch, call'[Batch], db')
      <4> SUFFICES ASSUME program.command # "library" PROVE Accounted(batch, call'[Batch], db')
        OBVIOUS
      <4> DEFINE k == IF batch.created THEN 1 ELSE 0
      <4>1. call'[Batch].pc = "idle"
        BY <3>1 DEF Store!Idle
      <4>2. k \in Nat /\ Cardinality(Ents(db)) \in Nat
        BY <1>2, FS_CardinalityType DEF Countable
      <4>3. Cardinality(Ents(db')) = Cardinality(Ents(db)) + k
        BY <3>3
      <4> HIDE DEF k
      <4>4. Balance(batch, db', k, 0, 0)
        BY <1>1, <2>2, <3>1, <4>2, <4>3, Numbers DEF Balance, Grown, SameLinks
      <4> QED
        BY <1>5, <4>1, <4>4 DEF Accounted, k
    <3> QED
      BY <1>1, <1>2, <3>1, <3>3, <3>4, <3>5, <3>6, StoreMoves
  <2> QED
    BY <1>1, <2>1, <2>4, <2>5 DEF StoreStep, Upserting, r, Store!At,
       Store!check_dst, Store!read_meta, Store!put_edge, Store!put_meta
<1>6. CASE batch.pc = "upsert_edge"
  <2>1. Linking(r, edge)
    BY <1>1, <1>3, <1>6 DEF Matches, edge
  <2> DEFINE cut == IF r.pc = "put_meta" THEN 1 ELSE 0
             acks == batch.totals.edges + batch.report.edges
  <2>2. program.command # "library" => Balance(batch, db, 0, 0, cut)
    BY <1>1, <1>3, <1>6 DEF BatchInv, Accounted
  <2>3. ~batch.created
    BY <1>1, <1>6 DEF Positioned
  <2>4. /\ acks \in Nat /\ batch.base \in Sizes /\ batch.base.edges \in Nat
        /\ batch.totals.skipped + batch.report.skipped \in Nat
        /\ Cardinality(Links(db)) \in Nat
    BY <1>1, <1>2, Numbers, Sizable
  <2>5. CASE Store!check_dst(Batch) \/ Store!read_meta(Batch)
    <3>1. Store!ent_key(edge.dst) \in DOMAIN db.rows
      <4>1. Len(batch.ids) = 2 /\ batch.pc \in Applying
        BY <1>1, <1>6 DEF Positioned, Applying
      <4>2. batch.ids[2] \in batch.named
        BY <1>1, <4>1 DEF Noted
      <4>3. Sourced(db, batch.ids[2], batch.doc)
        BY <1>1, <4>2 DEF Noted
      <4> QED
        BY <4>3 DEF Sourced, edge, EdgeAt
    <3>2. /\ StoreInv' /\ db' = db /\ Linking(call'[Batch], edge)
          /\ r.pc # "put_meta" /\ call'[Batch].pc # "put_meta"
      BY <1>1, <2>1, <2>5, <3>1, CheckDstDoes, ReadMetaDoes DEF r
    <3>3. Grows(db, db') /\ Countable(db') /\ (program.command # "ingest-stub" => CleanTree(db'))
      BY <1>2, <3>2 DEF Grows
    <3>4. Matches(batch, call'[Batch], db')
      BY <1>6, <3>2 DEF Matches, edge
    <3>5. program.command # "library" => Accounted(batch, call'[Batch], db')
      <4>1. call'[Batch].pc # "idle"
        BY <3>2 DEF Linking
      <4> QED
        BY <2>2, <2>3, <3>2, <4>1 DEF Accounted
    <3> QED
      BY <1>1, <1>2, <3>2, <3>3, <3>4, <3>5, StoreMoves
  <2>6. CASE Store!put_edge(Batch)
    <3>1. /\ StoreInv' /\ Grows(db, db') /\ Ents(db') = Ents(db) /\ Linking(call'[Batch], edge)
          /\ r.pc = "put_edge" /\ call'[Batch].pc = "put_meta" /\ Numb(db') = Numb(db)
          /\ \E key : /\ Links(db') = Links(db) \cup {key} /\ db'.rows[key] = edge
                      /\ \A k \in Links(db) : k # key => db'.rows[k] = db.rows[k]
      BY <1>1, <2>1, <2>6, PutEdgeDoes DEF r
    <3>2. PICK key : /\ Links(db') = Links(db) \cup {key} /\ db'.rows[key] = edge
                     /\ \A k \in Links(db) : k # key => db'.rows[k] = db.rows[k]
      BY <3>1
    <3>3. Countable(db')
      BY <1>2, <3>1, <3>2, FS_AddElement DEF Countable
    <3>4. program.command # "ingest-stub" => CleanTree(db')
      <4> SUFFICES ASSUME program.command # "ingest-stub" PROVE CleanTree(db')
        OBVIOUS
      <4>1. batch.triples \in Seq(RawTriples) /\ batch.triples # <<>> /\ Len(batch.ids) = 2
        BY <1>1, <1>6 DEF BatchTyped, Positioned, Applying
      <4>2. Head(batch.triples) = batch.triples[1] /\ 1 \in 1..Len(batch.triples)
        BY <4>1
      <4>3. CleanTriple(Head(batch.triples))
        BY <1>2, <4>2 DEF CleanTriples
      <4>4. /\ batch.ids[1] = IdOf[Head(batch.triples).src]
            /\ batch.ids[2] = IdOf[Head(batch.triples).dst]
        BY <1>1, <1>6, <4>1 DEF Positioned, Applying, EndAt
      <4>5. CleanEdge(edge)
        BY <4>3, <4>4 DEF CleanTriple, CleanEdge, edge, EdgeAt
      <4>6. \A k \in Links(db') : CleanEdge(db'.rows[k])
        BY <1>2, <3>2, <4>5 DEF CleanTree
      <4> QED
        BY <1>2, <3>1, <4>6 DEF CleanTree
    <3>5. Matches(batch, call'[Batch], db')
      BY <1>6, <3>1 DEF Matches, edge
    <3>6. program.command # "library" => Accounted(batch, call'[Batch], db')
      <4> SUFFICES ASSUME program.command # "library" PROVE Accounted(batch, call'[Batch], db')
        OBVIOUS
      <4>1. Balance(batch, db, 0, 0, 0)
        BY <2>2, <3>1
      <4>2. Grown(batch.base, db, acks + 0)
        BY <4>1 DEF Balance
      <4>3. /\ Grown(batch.base, db', acks + 0) /\ Cardinality(Links(db')) \in Nat
            /\ Cardinality(Links(db')) <= Cardinality(Links(db)) + 1
        BY <1>2, <2>4, <3>1, <3>2, <4>2, OneLinkMore
      <4> DEFINE skipped == batch.totals.skipped + batch.report.skipped
      <4>4. ~Partial(batch) => Cardinality(Links(db)) <= batch.base.edges + (acks + 0) + skipped + 0
        BY <4>1 DEF Balance
      <4>5. ~Partial(batch) => Cardinality(Links(db')) <= batch.base.edges + (acks + 0) + skipped + 1
        <5> HIDE DEF acks, skipped
        <5> QED
          BY <2>4, <4>3, <4>4 DEF skipped
      <4>6. Balance(batch, db', 0, 0, 1)
        BY <3>1, <4>1, <4>3, <4>5 DEF Balance
      <4> QED
        BY <1>6, <2>3, <3>1, <4>6 DEF Accounted
    <3> QED
      BY <1>1, <1>2, <3>1, <3>3, <3>4, <3>5, <3>6, StoreMoves
  <2>7. CASE Store!put_meta(Batch)
    <3>1. /\ StoreInv' /\ Grows(db, db') /\ Ents(db') = Ents(db) /\ call'[Batch] = Store!Idle
          /\ LinkedIn(db', edge) /\ r.pc = "put_meta"
          /\ Links(db') = Links(db) /\ Numb(db') = Links(db)
          /\ \A k \in Links(db) : db'.rows[k] = db.rows[k]
          /\ \E key \in Links(db) : key \notin Numb(db)
      BY <1>1, <2>1, <2>7, PutMetaDoes DEF r
    <3>2. Countable(db') /\ (program.command # "ingest-stub" => CleanTree(db'))
      BY <1>2, <3>1 DEF Countable, CleanTree
    <3>3. call'[Batch].pc = "idle"
      BY <3>1 DEF Store!Idle
    <3>4. Matches(batch, call'[Batch], db')
      BY <1>6, <3>1, <3>3 DEF Matches, edge
    <3>5. program.command # "library" => Accounted(batch, call'[Batch], db')
      <4> SUFFICES ASSUME program.command # "library" PROVE Accounted(batch, call'[Batch], db')
        OBVIOUS
      <4>1. Balance(batch, db, 0, 0, 1)
        BY <2>2, <3>1
      <4>2. Grown(batch.base, db, acks + 0) /\ acks + 0 \in Nat /\ (acks + 0) + 1 = acks + 1
        BY <2>4, <4>1 DEF Balance
      <4>3. Grown(batch.base, db', acks + 1)
        <5> HIDE DEF acks
        <5>1. Grown(batch.base, db', (acks + 0) + 1)
          BY <1>2, <2>4, <3>1, <4>2, OneAckMore
        <5> QED
          BY <4>2, <5>1
      <4> DEFINE skipped == batch.totals.skipped + batch.report.skipped
      <4>4. ~Partial(batch) => Cardinality(Links(db)) <= batch.base.edges + (acks + 0) + skipped + 1
        BY <4>1 DEF Balance
      <4>5. ~Partial(batch) => Cardinality(Links(db')) <= batch.base.edges + (acks + 1) + skipped + 0
        <5> HIDE DEF acks, skipped
        <5> QED
          BY <2>4, <3>1, <4>4 DEF skipped
      <4>6. Balance(batch, db', 0, 1, 0)
        BY <3>1, <4>1, <4>3, <4>5 DEF Balance
      <4> QED
        BY <1>6, <2>3, <3>3, <4>6 DEF Accounted
    <3> QED
      BY <1>1, <1>2, <3>1, <3>2, <3>4, <3>5, StoreMoves
  <2> QED
    BY <1>1, <2>1, <2>5, <2>6, <2>7 DEF StoreStep, Linking, r, Store!At, Store!put_docs, Store!put_entity
<1> QED
  BY <1>4, <1>5, <1>6

-----------------------------------------------------------------------------
(***************************************************************************)
(* Around the command.                                                     *)
(***************************************************************************)

\* A command begins with nothing read, and what is there to build on.
LEMMA Begun ==
    ASSUME program \in Programs, NEW tree, Countable(tree), NEW r, r.pc = "idle", NEW pc \in Ended \cup {"read"},
           pc = "done" => program.command = "library"
    PROVE  BatchInv([Begin(tree) EXCEPT !.pc = pc], program.command, program.file, r, tree)
<1> DEFINE b == [Begin(tree) EXCEPT !.pc = pc]
           landed == [named |-> {}, linked |-> {}]
<1>1. /\ DOMAIN b = Fields /\ b.pc = pc /\ b.triples = <<>> /\ b.ids = <<>>
      /\ b.rest = program.file /\ b.local = {} /\ b.created = FALSE /\ b.report = NoReport
      /\ b.seen = 0 /\ b.ok = 0 /\ b.totals = NoReport /\ b.failures = <<>>
      /\ b.base = Held(tree) /\ b.named = {} /\ b.linked = {} /\ b.landed = landed
  BY DEF Begin, Fields
<1> HIDE DEF b
<1>2. pc \in {"done", "error", "dead", "read"}
  BY DEF Ended
<1>3. /\ Cardinality(Ents(tree)) \in Nat /\ Cardinality(Links(tree)) \in Nat
      /\ Cardinality(Numb(tree)) \in Nat /\ Cardinality(Numb(tree)) <= Cardinality(Links(tree))
  BY Sizable
<1>4. /\ Held(tree).entities = Cardinality(Ents(tree)) /\ Held(tree).edges = Cardinality(Links(tree))
      /\ Held(tree).numbered = Cardinality(Numb(tree))
      /\ Held(tree) \in Sizes
  <2>1. Held(tree) = [entities |-> Cardinality(Ents(tree)), edges |-> Cardinality(Links(tree)),
                      numbered |-> Cardinality(Numb(tree))]
    BY DEF Held, Ents, Links, Numb
  <2> QED
    BY <1>3, <2>1 DEF Sizes
<1>5. program.file \in Seq(Lines)
  BY BatchAssumption
<1>6. BatchTyped(b)
  <2>1. /\ b.triples \in Seq(RawTriples) /\ b.ids \in Seq(Entities) /\ Len(b.ids) <= 2
        /\ b.failures \in Seq(Failures) /\ b.rest \in Seq(Lines)
    BY <1>1, <1>5
  <2>2. /\ DOMAIN b.landed = {"named", "linked"}
        /\ b.base \in Sizes /\ b.base.numbered <= b.base.edges
    BY <1>1, <1>3, <1>4
  <2>3. b.pc \in Ended \cup {"read"} /\ b.created \in BOOLEAN
    BY <1>1
  <2> QED
    BY <1>1, <2>1, <2>2, <2>3, Reported DEF BatchTyped
<1>7. Positioned(b)
  BY <1>1, <1>2 DEF Positioned, Working, Applying
<1>8. Noted(b, tree)
  BY <1>1, <1>2 DEF Noted, Applying
<1>9. Matches(b, r, tree)
  BY <1>1, <1>2 DEF Matches
<1>10. Counted(b, program.file, Pending(b))
  <2>1. Pending(b) = 0
    BY <1>1, <1>2 DEF Pending, Working, Applying
  <2>2. Len(b.failures) = 0
    BY <1>1
  <2>3. ReadSo(program.file, 0, program.file)
    <3>1. Len(program.file) \in Nat
      BY <1>5
    <3>2. Cardinality({i \in 1..0 : program.file[i] # "blank"}) = 0
      <4>1. {i \in 1..0 : program.file[i] # "blank"} = {}
        OBVIOUS
      <4> QED
        BY <4>1, FS_EmptySet
    <3>3. \A i \in 1..Len(program.file) : program.file[i] = program.file[0 + i]
      BY <3>1
    <3>4. 0 \in 0..Len(program.file) /\ Len(program.file) = Len(program.file) - 0
      BY <3>1
    <3> QED
      BY <3>2, <3>3, <3>4 DEF ReadSo
  <2> QED
    BY <1>1, <2>1, <2>2, <2>3 DEF Counted
<1>11. Accounted(b, r, tree)
  <2>1. b.created = FALSE /\ b.pc # "upsert_edge"
    BY <1>1, <1>2
  <2>2. Balance(b, tree, 0, 0, 0)
    BY <1>1, <1>3, <1>4, Reported DEF Balance, Grown
  <2> QED
    BY <2>1, <2>2 DEF Accounted
<1>12. CleanTriples(b.triples)
  BY <1>1 DEF CleanTriples
<1> QED
  BY <1>1, <1>6, <1>7, <1>8, <1>9, <1>10, <1>11, <1>12 DEF BatchInv, b

LEMMA RestartedArms ==
    ASSUME ArmsInv, Restarted
    PROVE  ArmsInv'
<1>1. /\ TreeOK(client) /\ client' = client /\ request' = [c \in Callers |-> Unasked]
      /\ hits' = Fresh(client).hits /\ asked' = Fresh(client).asked
  BY DEF Restarted, ArmsInv, RequestsOK
<1>2. RequestsOK'
  BY <1>1, UnaskedOK DEF RequestsOK
<1>3. \A c \in Callers : request'[c].pc # "enter"
  BY <1>1 DEF Unasked
<1>4. AccountOK(client, Fresh(client).hits, Fresh(client).asked, request')
  BY <1>1, <1>3, FreshAccounts
<1> QED
  BY <1>1, <1>2, <1>4 DEF ArmsInv, CountersOK

LEMMA AckedHeld ==
    ASSUME StoreInv, NEW tree \in {db, disk}
    PROVE  \A a \in tree.acked : a[1] \in DOMAIN tree.rows /\ tree.rows[a[1]] = a[2]
<1>1. Tree!AckedIn(tree.rows, tree.acked)
  BY TreeShape
<1> QED
  BY <1>1 DEF Tree!AckedIn, Tree!Table

LEMMA CrashKeeps ==
    ASSUME IngestInv, crash
    PROVE  IngestInv'
<1>1. /\ batch' = [Begin(db') EXCEPT !.pc = "dead"] /\ Store!crash /\ Restarted
  BY DEF crash
<1>2. StoreInv' /\ db' = disk /\ disk' = disk /\ call'[Batch] = Store!Idle
  BY <1>1, CrashDoes DEF IngestInv
<1>3. call'[Batch].pc = "idle" /\ "dead" \in Ended \cup {"read"}
  BY <1>2 DEF Store!Idle, Ended
<1>4. BatchInv([Begin(disk) EXCEPT !.pc = "dead"], program.command, program.file, call'[Batch], disk)
  BY <1>3, Begun DEF IngestInv
<1>5. ArmsInv' /\ program' = program
  BY <1>1, RestartedArms DEF Restarted, IngestInv
<1> QED
  BY <1>1, <1>2, <1>4, <1>5 DEF IngestInv

LEMMA FlushKeeps ==
    ASSUME IngestInv, flush
    PROVE  IngestInv'
<1>1. Store!flush /\ UNCHANGED <<armVars, program, batch>>
  BY DEF flush
<1>2. StoreInv' /\ db' = db /\ disk' = db /\ call' = call
  BY <1>1, FlushDoes DEF IngestInv
<1>3. ArmsInv'
  BY <1>1, ArmsStay DEF IngestInv
<1> QED
  BY <1>1, <1>2, <1>3 DEF IngestInv

LEMMA RerunKeeps ==
    ASSUME IngestInv, rerun
    PROVE  IngestInv'
<1>1. /\ batch.pc \in Ended /\ batch' = Begin(db) /\ disk' = db /\ Restarted
      /\ UNCHANGED <<db, call, crashes>>
  BY DEF rerun
<1>2. StoreInv' /\ ArmsInv' /\ program' = program
  BY <1>1, ClosingFlushes, RestartedArms DEF IngestInv, Restarted
<1>3. call[Batch].pc = "idle"
  BY <1>1 DEF IngestInv, BatchInv, Matches, Ended
<1>4. BatchInv([Begin(db) EXCEPT !.pc = "read"], program.command, program.file, call[Batch], db)
  BY <1>3, Begun DEF IngestInv
<1>5. [Begin(db) EXCEPT !.pc = "read"] = Begin(db)
  <2> DEFINE b == Begin(db)
  <2>1. b = [f \in DOMAIN b |-> b[f]] /\ b.pc = "read" /\ "pc" \in DOMAIN b
    BY DEF Begin
  <2> HIDE DEF b
  <2>2. [b EXCEPT !.pc = "read"] = b
    BY <2>1
  <2> QED
    BY <2>2 DEF b
<1> QED
  BY <1>1, <1>2, <1>4, <1>5 DEF IngestInv

LEMMA RequestKeeps ==
    ASSUME IngestInv, NEW c \in Callers,
           \/ ProceedRequest(c)
           \/ \E text \in Texts : library_request(c, "complete", text)
           \/ library_request(c, "judge", <<>>)
    PROVE  IngestInv'
<1>1. UNCHANGED <<storeVars, program, batch>>
  BY DEF ProceedRequest, library_request
<1>2. ArmsInv'
  <2>1. CASE Answering(c)
    BY <2>1, AnsweringKeepsRequests, AnsweringKeepsCounters DEF IngestInv, ArmsInv
  <2>2. ASSUME NEW op \in {"complete", "judge"}, NEW text \in Texts \cup {<<>>}, Call(c, op, text)
        PROVE  ArmsInv'
    BY <2>2, CallKeepsRequests, CallKeepsCounters DEF IngestInv, ArmsInv
  <2> QED
    BY <2>1, <2>2 DEF ProceedRequest, library_request
<1>3. StoreInv'
  BY <1>1, StoreStays DEF IngestInv
<1>4. db' = db /\ disk' = disk /\ call' = call
  BY <1>1 DEF storeVars
<1> QED
  BY <1>1, <1>2, <1>3, <1>4 DEF IngestInv

-----------------------------------------------------------------------------
LEMMA IngestStarts == Init => IngestInv
<1> SUFFICES ASSUME Init PROVE IngestInv
  OBVIOUS
<1>1. program \in Programs /\ InitArms(program.kind, program.env) /\ Store!Init
  BY DEF Init
<1>2. program.env \in Envs
  BY <1>1, BatchAssumption
<1>3. ArmsInv
  <2>1. /\ client = build_llm_client(program.kind, program.env)
        /\ request = [c \in Callers |-> Unasked]
        /\ hits = Fresh(client).hits /\ asked = Fresh(client).asked
    BY <1>1 DEF InitArms
  <2>2. TreeOK(client)
    BY <1>2, <2>1, BuiltOK
  <2>3. RequestsOK
    BY <2>1, <2>2, UnaskedOK DEF RequestsOK
  <2>4. \A c \in Callers : request[c].pc # "enter"
    BY <2>1 DEF Unasked
  <2>5. CountersOK
    BY <2>1, <2>2, <2>4, FreshAccounts DEF CountersOK
  <2> QED
    BY <2>3, <2>5 DEF ArmsInv
<1>4. StoreInv
  BY <1>1, StoreStarts
<1>5. db = disk /\ Ents(db) = {} /\ Links(db) = {} /\ call[Batch].pc = "idle"
  <2>1. /\ db = disk /\ db.rows = [k \in {Store!K_ENT, Store!K_DOC} \X {} \X {0} |-> Docs]
        /\ call[Batch].pc = "idle"
    BY <1>1 DEF Store!Init, Store!OpenedDb, Store!Idle
  <2>2. DOMAIN db.rows = {}
    BY <2>1
  <2> QED
    BY <2>1, <2>2 DEF Ents, Links, Store!Table
<1>6. Countable(db) /\ CleanTree(db)
  BY <1>5, FS_EmptySet DEF Countable, CleanTree
<1>7. BatchInv(batch, program.command, program.file, call[Batch], db)
  <2>2. batch = [Begin(db) EXCEPT !.pc = CASE program.command = "library" -> "done"
                                            [] Hopeless -> "error"
                                            [] OTHER -> Begin(db).pc]
    BY DEF Init
  <2>3. Begin(db).pc = "read"
    BY DEF Begin
  <2>4. CASE program.command = "library"
    <3>1. batch = [Begin(db) EXCEPT !.pc = "done"]
      BY <2>2, <2>4 DEF Hopeless
    <3>2. BatchInv([Begin(db) EXCEPT !.pc = "done"], program.command, program.file, call[Batch], db)
      BY <1>1, <1>5, <1>6, <2>4, Begun DEF Ended
    <3> QED
      BY <3>1, <3>2
  <2>5. CASE program.command # "library" /\ Hopeless
    <3>1. batch = [Begin(db) EXCEPT !.pc = "error"]
      BY <2>2, <2>5
    <3>2. BatchInv([Begin(db) EXCEPT !.pc = "error"], program.command, program.file, call[Batch], db)
      BY <1>1, <1>5, <1>6, <2>5, Begun DEF Ended
    <3> QED
      BY <3>1, <3>2
  <2>6. CASE program.command # "library" /\ ~Hopeless
    <3>1. batch = [Begin(db) EXCEPT !.pc = "read"]
      BY <2>2, <2>3, <2>6
    <3>2. BatchInv([Begin(db) EXCEPT !.pc = "read"], program.command, program.file, call[Batch], db)
      BY <1>1, <1>5, <1>6, <2>6, Begun DEF Ended
    <3> QED
      BY <3>1, <3>2
  <2> QED
    BY <2>4, <2>5, <2>6
<1> QED
  BY <1>1, <1>3, <1>4, <1>5, <1>6, <1>7 DEF IngestInv

LEMMA NextKeepsIngest == IngestInv /\ [Next]_vars => IngestInv'
<1> SUFFICES ASSUME IngestInv, [Next]_vars PROVE IngestInv'
  OBVIOUS
<1>1. CASE ProceedBatch
  <2>1. CASE read_line \/ summary \/ policy_step \/ policy_fails
    BY <2>1, ReadLineKeeps, SummaryKeeps, PolicyStepKeeps, PolicyFailsKeeps
  <2>2. ASSUME NEW triples \in Envelopes, policy_action(triples) \/ run_ingest_stub(triples)
        PROVE  IngestInv'
    BY <2>2, PolicyActionKeeps, StubKeeps
  <2>3. CASE resolve_known \/ resolve \/ resolve_fails \/ resolved
    BY <2>3, ResolveKnownKeeps, ResolveKeeps, ResolveFailsKeeps, ResolvedKeeps
  <2>4. CASE link \/ linked \/ link_fails \/ store_step
    BY <2>4, LinkKeeps, LinkedKeeps, LinkFailsKeeps, StoreStepKeeps
  <2> QED
    BY <1>1, <2>1, <2>2, <2>3, <2>4 DEF ProceedBatch
<1>2. ASSUME NEW c \in Callers,
             \/ ProceedRequest(c)
             \/ \E text \in Texts : library_request(c, "complete", text)
             \/ library_request(c, "judge", <<>>)
      PROVE  IngestInv'
  BY <1>2, RequestKeeps
<1>3. CASE crash \/ flush \/ rerun
  BY <1>3, CrashKeeps, FlushKeeps, RerunKeeps
<1>4. CASE UNCHANGED vars
  <2>1. UNCHANGED <<armVars, storeVars, program, batch>>
    BY <1>4 DEF vars
  <2>2. ArmsInv' /\ StoreInv' /\ db' = db /\ disk' = disk /\ call' = call
    BY <2>1, ArmsStay, StoreStays DEF IngestInv, storeVars
  <2> QED
    BY <2>1, <2>2 DEF IngestInv
<1> QED
  BY <1>1, <1>2, <1>3, <1>4 DEF Next

LEMMA AlwaysIngestInv == Spec => []IngestInv
BY IngestStarts, NextKeepsIngest, PTL DEF Spec

-----------------------------------------------------------------------------
(***************************************************************************)
(* The theorems.                                                           *)
(***************************************************************************)

\* Whatever the file, the client and the store do, the record of the command
\* and the requests hold what main.rs, fallback.rs and router.rs declare.
THEOREM IngestTypeCorrect == Spec => []TypeOK
<1>1. ASSUME IngestInv PROVE TypeOK
  <2>1. BatchTyped(batch) /\ ArmsTypeOK
    BY <1>1, ArmsTyped DEF IngestInv, ArmsInv, BatchInv
  <2>2. batch.report \in Reports /\ batch.totals \in Reports
    BY <2>1 DEF BatchTyped
  <2>3. \A f \in DOMAIN NoReport : {batch.report[f], batch.totals[f]} \subseteq Nat
    BY <2>2 DEF NoReport, Reports
  <2>4. batch.pc \in Ended \cup {"read", "step", "asked", "resolve", "upsert", "link", "upsert_edge"}
    BY <2>1 DEF BatchTyped, Working, Applying
  <2> QED
    BY <2>1, <2>3, <2>4 DEF TypeOK, BatchTyped
<1> QED
  BY <1>1, AlwaysIngestInv, PTL

\* With any fallback under any router and any number of tasks, a caller gets
\* an error or an empty answer only after every backend was asked, and none
\* was asked twice (FallbackLlm::complete and judge, HeuristicRouter::pick_pair).
THEOREM AlwaysAllTried == Spec => []BadOnlyIfAllTried
<1>1. ASSUME IngestInv PROVE BadOnlyIfAllTried
  BY <1>1, RequestsSay DEF IngestInv, ArmsInv
<1> QED
  BY <1>1, AlwaysIngestInv, PTL

\* The counters of the router and of the fallback account for every call of
\* an arm, at every step of every interleaving of callers.
THEOREM CallsAlwaysAccounted == Spec => []CallsAccounted
<1>1. ASSUME IngestInv PROVE CallsAccounted
  BY <1>1, CountersSay DEF IngestInv, ArmsInv
<1> QED
  BY <1>1, AlwaysIngestInv, PTL

\* run_ingest_batch counts every line of any file once, as ok or as a
\* failure, and leaves out none but the blank ones.
THEOREM SummaryAlwaysAddsUp == Spec => []SummaryAddsUp
<1>1. ASSUME IngestInv PROVE SummaryAddsUp
  <2> SUFFICES ASSUME program.command = "ingest-batch", batch.pc # "dead"
               PROVE  /\ batch.seen = batch.ok + Len(batch.failures)
                                      + (IF batch.pc \in Ended \cup {"read"} THEN 0 ELSE 1)
                      /\ batch.pc = "done" => batch.seen = Cardinality(NonBlank)
    BY DEF SummaryAddsUp
  <2>1. /\ BatchTyped(batch) /\ Counted(batch, program.file, Pending(batch))
        /\ batch.pc = "done" => batch.rest = <<>>
    BY <1>1 DEF IngestInv, BatchInv
  <2>2. Pending(batch) = IF batch.pc \in Ended \cup {"read"} THEN 0 ELSE 1
    <3>1. batch.pc \in Ended \cup {"read"} \cup Working
      BY <2>1 DEF BatchTyped
    <3> QED
      BY <3>1 DEF Pending, Ended, Working, Applying
  <2>3. ASSUME batch.pc = "done" PROVE batch.seen = Cardinality(NonBlank)
    <3>1. program.file \in Seq(Lines)
      BY <1>1, BatchAssumption DEF IngestInv
    <3>2. PICK n \in 0..Len(program.file) :
              /\ Len(<<>>) = Len(program.file) - n
              /\ batch.seen = Cardinality({i \in 1..n : program.file[i] # "blank"})
      BY <2>1, <2>3 DEF Counted, ReadSo
    <3>3. n = Len(program.file) /\ DOMAIN program.file = 1..n
      BY <3>1, <3>2
    <3> QED
      BY <3>2, <3>3 DEF NonBlank
  <2> QED
    BY <2>1, <2>2, <2>3 DEF Counted
<1> QED
  BY <1>1, AlwaysIngestInv, PTL

\* What apply stored for a line that is counted ok stays stored, in both
\* places a reader looks, under faults, crashes and repeated runs.
THEOREM OkLinesAlwaysStored == Spec => []OkLinesStored
<1>1. ASSUME IngestInv PROVE OkLinesStored
  <2>1. Noted(batch, db) /\ StoreInv
    BY <1>1 DEF IngestInv, BatchInv
  <2>2. \A item \in batch.landed.named : Sourced(db, item[1], item[2])
    BY <2>1 DEF Noted
  <2>3. \A edge \in batch.landed.linked : \E a \in db.acked : a[2] = edge
    BY <2>1 DEF Noted, LinkedIn
  <2>4. \A a \in db.acked : db.rows[a[1]] = a[2]
    BY <2>1, AckedHeld
  <2> QED
    BY <2>2, <2>3, <2>4 DEF OkLinesStored, Sourced, Store!Has
<1> QED
  BY <1>1, AlwaysIngestInv, PTL

\* The totals that run_ingest_batch prints tell how the graph has grown, at
\* whichever access the store failed and whatever a crash had left: it has
\* grown by no less, but for one edge that was unnumbered and was replaced, and
\* without a line that failed in apply by no more than an edge per triple that
\* was skipped.
THEOREM TotalsAlwaysTellGrowth == Spec => []TotalsTellGrowth
<1>1. ASSUME IngestInv PROVE TotalsTellGrowth
  <2> SUFFICES ASSUME batch.pc \in {"read", "done"}, program.command # "library"
               PROVE  /\ Held(db).entities >= batch.base.entities + batch.totals.entities
                      /\ Held(db).edges >= (batch.base.edges + batch.totals.edges)
                             - (IF batch.base.numbered < batch.base.edges THEN 1 ELSE 0)
                      /\ ~(\E i \in DOMAIN batch.failures : batch.failures[i].stage = "apply") =>
                            /\ Held(db).entities = batch.base.entities + batch.totals.entities
                            /\ Held(db).edges <= (batch.base.edges + batch.totals.edges)
                                                    + batch.totals.skipped
    BY DEF TotalsTellGrowth, At
  <2>1. /\ BatchTyped(batch) /\ Positioned(batch) /\ Countable(db)
        /\ Accounted(batch, call[Batch], db)
    BY <1>1 DEF IngestInv, BatchInv
  <2>2. ~batch.created /\ batch.report = NoReport
    BY <2>1 DEF Positioned, Applying
  <2>3. Balance(batch, db, 0, 0, 0)
    BY <2>1, <2>2 DEF Accounted
  <2> DEFINE links == Cardinality(Links(db))
             numb == Cardinality(Numb(db))
             acks == batch.totals.edges
             replaced == IF batch.base.numbered < batch.base.edges THEN 1 ELSE 0
  <2>9. replaced = IF batch.base.numbered < batch.base.edges THEN 1 ELSE 0
    OBVIOUS
  <2>4. Held(db).entities = Cardinality(Ents(db)) /\ Held(db).edges = links
    BY DEF Held, Ents, Links
  <2>5. (\E i \in DOMAIN batch.failures : batch.failures[i].stage = "apply") <=> Partial(batch)
    <3>1. batch.failures \in Seq(Failures)
      BY <2>1 DEF BatchTyped
    <3> QED
      BY <3>1 DEF Partial
  <2> HIDE DEF Partial
  <2>6. /\ batch.base.entities + batch.totals.entities + batch.report.entities + 0
           = batch.base.entities + batch.totals.entities
        /\ batch.totals.edges + batch.report.edges + 0 = acks
        /\ batch.base.edges + acks + (batch.totals.skipped + batch.report.skipped) + 0
           = batch.base.edges + acks + batch.totals.skipped
    BY <2>1, <2>2, Reported, Numbers
  <2>7. /\ Cardinality(Ents(db)) >= batch.base.entities + batch.totals.entities
        /\ Grown(batch.base, db, acks)
        /\ ~Partial(batch) =>
              /\ Cardinality(Ents(db)) = batch.base.entities + batch.totals.entities
              /\ links <= batch.base.edges + acks + batch.totals.skipped
    BY <2>3, <2>6 DEF Balance
  <2>8. links >= (batch.base.edges + acks) - replaced
    <3>1. /\ links \in Nat /\ numb \in Nat /\ numb <= links
          /\ batch.base.edges \in Nat /\ batch.base.numbered \in Nat /\ acks \in Nat
          /\ batch.base.numbered <= batch.base.edges
      BY <2>1, Sizable, Numbers DEF BatchTyped
    <3>2. /\ links >= batch.base.edges /\ numb >= batch.base.numbered + acks
          /\ acks >= 1 => numb >= batch.base.edges + acks - 1
      BY <2>7 DEF Grown
    <3>3. replaced \in {0, 1} /\ (replaced = 0 => batch.base.numbered = batch.base.edges)
      BY <3>1
    <3> HIDE DEF links, numb, acks, replaced
    <3>4. CASE replaced = 0
      BY <3>1, <3>2, <3>3, <3>4
    <3>5. CASE replaced = 1
      BY <3>1, <3>2, <3>5
    <3> QED
      BY <3>3, <3>4, <3>5
  <2>10. ~Partial(batch) =>
            links <= batch.base.edges + batch.totals.edges + batch.totals.skipped
    BY <2>7
  <2>11. links >= (batch.base.edges + batch.totals.edges) - replaced
    BY <2>8
  <2> HIDE DEF links, numb, acks, replaced
  <2>12. /\ Held(db).entities >= batch.base.entities + batch.totals.entities
         /\ Held(db).edges >= (batch.base.edges + batch.totals.edges)
                               - (IF batch.base.numbered < batch.base.edges THEN 1 ELSE 0)
    BY <2>4, <2>7, <2>9, <2>11
  <2>13. ~(\E i \in DOMAIN batch.failures : batch.failures[i].stage = "apply") =>
            /\ Held(db).entities = batch.base.entities + batch.totals.entities
            /\ Held(db).edges <= (batch.base.edges + batch.totals.edges) + batch.totals.skipped
    <3> SUFFICES ASSUME ~Partial(batch)
                 PROVE  /\ Held(db).entities = batch.base.entities + batch.totals.entities
                        /\ Held(db).edges <= (batch.base.edges + batch.totals.edges)
                                                + batch.totals.skipped
      BY <2>5
    <3> QED
      BY <2>4, <2>7, <2>10
  <2> QED
    BY <2>12, <2>13
<1> QED
  BY <1>1, AlwaysIngestInv, PTL

\* No entity and no edge gets into the graph through a triple that
\* TripleSanitizer rejects, for its names or for its relation, by a command
\* that goes through the policy, at any step and after any error or crash.
THEOREM OnlyCleanEverStored == Spec => []OnlyCleanStored
<1>1. ASSUME IngestInv PROVE OnlyCleanStored
  BY <1>1 DEF IngestInv, OnlyCleanStored, CleanTree, CleanEntity, CleanEdge, Stored, Ents, Links
<1> QED
  BY <1>1, AlwaysIngestInv, PTL
=============================================================================
