------------------------------ MODULE MCBackup ------------------------------
(* Two partitions of two blocks, the first of them allocated.  In each
   selection one partition is held, or left alone, while the other is prepared
   and read: a volume with a letter beside the ESP, a locked BitLocker
   partition beside a volume without a letter, a raw partition beside a volume
   with one. *)
EXTENDS Backup

TwoBlocks == {1, 2}
FirstBlock == {{1}}
Pairs == {<<"lettered", "esp">>, <<"bitlocked", "unlettered">>, <<"bare", "lettered">>}
Single == {<<"lettered">>}
AllChecks == Verifications
SourceCheck == {"source"}
=============================================================================
