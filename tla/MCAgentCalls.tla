----------------------------- MODULE MCAgentCalls -----------------------------
EXTENDS AgentCalls

CONSTANTS fetch, sum, spin, hidden, unknown, net, disk,
          pinned, again, open, ours, other

Known  == {fetch, sum, spin, hidden}
Listed == {fetch, sum, spin}

\* sum needs a label that is granted and one that is not.
Needs == [n \in Known \cup {unknown} |-> CASE n = fetch -> {net}
                                           [] n = sum -> {net, disk}
                                           [] OTHER -> {}]

\* spin never awaits.
Awaiting == {fetch, sum, hidden}

\* Two values for peers with a pinned key, one of each key, and one without.
PinnedKeys == [h \in {pinned, again, open} |->
                 CASE h = pinned -> ours [] h = again -> other [] h = open -> NoKey]
=============================================================================
