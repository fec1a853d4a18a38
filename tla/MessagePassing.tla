--------------------------- MODULE MessagePassing ---------------------------
(***************************************************************************)
(* Where layers pass messages: a GfmReader sends the graph it has gathered *)
(* through one of them, and GfmStack is several with two channels.         *)
(***************************************************************************)
EXTENDS Reader, GfmStack

\* The stack is a function: it is looked at once, in the initial state.
AtFirst == reads = 0 /\ writes = 0

\* What a GfmReader gathers while others write gets the numbers that the
\* formula of the layer says of that graph, in the order of its edges; and so
\* does the stack, through both channels: "with zero schema bases the schema
\* channel matches the context channel exactly" (gfm_stack.rs), also under a
\* head that was made for other dimensions or fewer layers.
ChannelsFollowFormula ==
    /\ \A r \in Readers :
          KindOf[r].gfm /\ At(r, "score") /\ Forwarded(r).ok =>
              Forwarded(r).dst = Formula(View(r), HiddenDim, 1)[1]
    /\ AtFirst => \A x \in Inputs : FollowsFormula(x)

\* The stack takes exactly what fits together: no buffer it makes on the way
\* trips a later layer, and nothing that does not fit gets through.
TakesWhatFits ==
    AtFirst => \A x \in Inputs : forward(x).result = "ok" <=> FitsTogetherWith(x)
=============================================================================
