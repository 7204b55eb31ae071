---------------------------- MODULE MCTaskPool ----------------------------
EXTENDS TaskPool

\* To keep the instance small a behaviour has mail or snapshots; thieves and
\* the owner omit tasks, which is what misleads a snapshot, in both.
MailOrSnapshots ==
  {[mailed |-> 1, snapshots |-> FALSE], [mailed |-> 0, snapshots |-> TRUE]}
=============================================================================
