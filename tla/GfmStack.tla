------------------------------ MODULE GfmStack ------------------------------
(***************************************************************************)
(* The stack of layers with two channels (sage-reader/src/gfm_stack.rs), a *)
(* function of its input, and what it promises of the inputs it is given.  *)
(***************************************************************************)
EXTENDS GfmLayer

CONSTANT Inputs  \* stacks, with the graph and the hidden state of a call

\* deg and len count the degrees and the cells that are given.
ASSUME GfmAssumption ==
    Inputs \subseteq [n_nodes : Nat, edges : Seq(Nat \X Nat), deg : Nat, d : Nat, len : Nat,
                      num_layers : Nat \ {0},
                      head : [dim : Nat, num_layers : Nat, k_bases : Nat]]

Unit == "one"

Times(factor, x) == IF factor = Unit THEN x ELSE Term("times", 0, factor, x)
Passed(h) == [ok |-> TRUE, dst |-> h]
Scaled(x) == Term("beta", 0, <<>>, x)

-----------------------------------------------------------------------------
(***************************************************************************)
(* The head.  Nothing but identity makes one.                              *)
(***************************************************************************)
identity(dim, num_layers, k_bases) ==
    [p_feature |-> [j \in 1..dim |-> Unit],
     schema_bases |-> [l \in 1..num_layers |-> [k \in 1..k_bases |-> Zeros(dim)]]]

HasBias(head, l) == l \in DOMAIN head.schema_bases

\* The mean of the bases of a layer; a share of zero is zero.
schema_bias_for_layer(head, l) ==
    LET bases == head.schema_bases[l]
        share(x) == IF x = NoSum THEN NoSum ELSE Term("share", Len(bases), <<>>, x) IN
    [j \in DOMAIN head.p_feature |->
        LET sum[k \in 0..Len(bases)] == IF k = 0 THEN NoSum ELSE sum[k - 1] \o share(bases[k][j])
        IN sum[Len(bases)]]

\* In chunks of the head's dimension, whatever the layers' is.
calibrate(head, h) ==
    [p \in DOMAIN h |-> Times(head.p_feature[((p - 1) % Len(head.p_feature)) + 1], h[p])]

\* The bias on every row, through the kernel; a layer the head has no bases
\* for gets none.
biased(head, l, g, d, h) ==
    LET bias == schema_bias_for_layer(head, l) IN
    IF ~HasBias(head, l) THEN Passed(h)
    ELSE scatter_add_rows(h, d, [i \in 1..g.n_nodes |-> i - 1],
                          [p \in 1..(g.n_nodes * Len(bias)) |-> bias[((p - 1) % Len(bias)) + 1]])

-----------------------------------------------------------------------------
(***************************************************************************)
(* forward.  The first error ends a channel.                               *)
(***************************************************************************)
InputState(x) ==
    [p \in 1..x.len |-> IF x.d = 0 THEN NoSum ELSE <<Input((p - 1) \div x.d, (p - 1) % x.d)>>]

context_channel(x, h) ==
    LET after[l \in 0..x.num_layers] ==
            IF l = 0 THEN Passed(h)
            ELSE IF after[l - 1].ok THEN layer_forward(l, x, x.d, after[l - 1].dst) ELSE after[l - 1]
    IN after[x.num_layers]

primed_forward(head, l, x, h) ==
    LET primed == biased(head, l, x, x.d, h) IN
    IF primed.ok THEN layer_forward(l, x, x.d, primed.dst) ELSE primed

schema_channel(x, head, h) ==
    LET after[l \in 0..x.num_layers] ==
            IF l = 0 THEN Passed(h)
            ELSE IF after[l - 1].ok THEN primed_forward(head, l, x, after[l - 1].dst) ELSE after[l - 1]
    IN after[x.num_layers]

\* Splitting a buffer into chunks of no cells panics.
Ended(how) == [result |-> how, out |-> <<>>]

Channels(x, head) ==
    LET h == calibrate(head, InputState(x))
        ctx == context_channel(x, h)
        sch == schema_channel(x, head, h) IN
    IF ~ctx.ok \/ ~sch.ok THEN Ended("err")
    ELSE [result |-> "ok", out |-> [p \in DOMAIN ctx.dst |-> ctx.dst[p] \o Scaled(sch.dst[p])]]

\* Seeded fault: the state is measured against the head, not the layers.
forward_by_head(x) ==
    IF x.len # x.n_nodes * x.head.dim THEN Ended("err")
    ELSE IF x.head.dim = 0 THEN Ended("panic")
    ELSE Channels(x, identity(x.head.dim, x.head.num_layers, x.head.k_bases))

forward(x) ==
    IF x.len # x.n_nodes * x.d THEN Ended("err")
    ELSE IF x.head.dim = 0 THEN Ended("panic")
    ELSE Channels(x, identity(x.head.dim, x.head.num_layers, x.head.k_bases))

-----------------------------------------------------------------------------
(***************************************************************************)
(* Properties.                                                             *)
(***************************************************************************)
\* Through both channels and all layers the flat buffers hold what the formula
\* says, and the second channel equals the first.
FollowsFormula(x) ==
    forward(x).result = "ok" =>
        LET H_ctx == Formula(x, x.d, x.num_layers)[x.num_layers] IN
        forward(x).out = [p \in DOMAIN H_ctx |-> H_ctx[p] \o Scaled(H_ctx[p])]

\* A head for another dimension is met only if there is a row to bias.
FitsTogetherWith(x) ==
    /\ x.len = x.n_nodes * x.d /\ x.deg = x.n_nodes
    /\ InBounds(x.n_nodes, x.edges)
    /\ x.d > 0 /\ x.head.dim > 0
    /\ x.n_nodes > 0 /\ x.head.num_layers > 0 => x.head.dim = x.d
=============================================================================
