---------------------------- MODULE MCMultiCall ----------------------------
(* MultiCall over small programs.                                          *)
EXTENDS MultiCall

Leaves == [kind : {"call", "balance"}, may : BOOLEAN, calls : {<<>>}]
Groups(lists) == [kind : {"group"}, may : BOOLEAN, calls : lists]

\* Up to two calls, each of them possibly a group of up to two.
Flat == SeqOf(Leaves \cup Groups(SeqOf(Leaves, 2)), 2)

\* Groups within groups within groups: a group of calls, alone or with a call
\* behind it, in a group that is alone or has a call behind it.
Calls == {c \in Leaves : c.kind = "call"}
Behind(x) == {<<x>>} \cup {<<x, c>> : c \in Calls}
Deep == UNION {Behind(g) : g \in Groups(UNION {Behind(h) : h \in Groups(SeqOf(Calls, 2))})}

MCNested == Flat \cup Deep

\* Eight calls that must not fail, the shortest whose answer is decoded.
EightOf(kind) == {[i \in 1 .. 8 |-> [kind |-> kind, may |-> FALSE, calls |-> <<>>]]}
MCEight == EightOf("call")
MCCreates == EightOf("create")
=============================================================================
