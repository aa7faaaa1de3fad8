----------------------------- MODULE MCPublish ------------------------------
(* Publish for TLC.                                                        *)
EXTENDS Publish

\* One publisher calls BatchPublish with two messages and may cancel; the others
\* call Publish with context.Background().
MCBatcher == CHOOSE p \in Publishers : TRUE
MCBatchSize == [p \in Publishers |-> IF p = MCBatcher THEN 2 ELSE 1]
MCCancellable == {MCBatcher}
=============================================================================
