------------------------------ MODULE MCToSend ------------------------------
(* ToSend with small sets of transactions and multicalls.                  *)
EXTENDS ToSend

RawTx(type, gasPrice, tip, cap, list, path) ==
  [type |-> type, gasPrice |-> gasPrice, tip |-> tip, cap |-> cap,
   list |-> list, path |-> path]

Legacy(price, path) == RawTx(None, Some(price), None, None, FALSE, path)
Dynamic(tip, path) == RawTx(Some(2), Some(tip + 1), Some(tip), Some(9), TRUE, path)

\* Cheap and dear ones of both kinds, with the base token first, in the middle,
\* last, or not on the path; an access list one; and two that lack their fees.
MCRawTxs ==
  { Legacy(1, <<>>), Legacy(4, <<"other", "base", "other">>),
    Dynamic(1, <<"base", "other">>), Dynamic(2, <<"other", "base">>),
    RawTx(Some(1), Some(4), None, None, TRUE, <<"other">>),
    RawTx(Some(2), Some(4), Some(4), None, FALSE, <<>>),
    RawTx(Some(0), None, None, None, FALSE, <<>>) }

\* Every list of them without logs, as the engine asks for none (engine.rs, 272),
\* and some with every list of logs, of a foreign transaction among them.
AnswersOf(lists, logs) ==
  {a \in [txs : lists, logs : logs] : \A k \in DOMAIN a.logs : a.logs[k] <= Len(a.txs)}
MCAnswers ==
  AnswersOf(SeqOf(MCRawTxs, 2), {<<>>}) \cup
  AnswersOf({<<Legacy(1, <<>>)>>, <<Dynamic(2, <<"other", "base">>), Legacy(1, <<>>)>>},
            SeqOf(0 .. 2, 3))

\* None, and some.
MCBaseFees == {None, Some(0), Some(3)}

\* Two calls, of which the first must not fail.
MCShapes == {<<FALSE, TRUE>>}
=============================================================================
