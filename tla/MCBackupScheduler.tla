-------------------------- MODULE MCBackupScheduler --------------------------
(***************************************************************************)
(* TLC's instances of BackupScheduler: groups of three backups.            *)
(***************************************************************************)
EXTENDS BackupScheduler

CONSTANTS vm1, vm2, vm3  \* domains

Group(obj, dom, threads) == [obj |-> obj, dom |-> dom, threads |-> threads]

\* virt-backup backup: each group looks its domains up, so that each backup holds
\* an object of its own, also where two are of one domain.
LookedUp(dom, threads) == Group(<<"o1", "o2", "o3">>, dom, threads)
\* A caller of the package that gives two backups of a domain the same object.
Shared == Group(<<"o1", "o2", "o1">>, <<vm1, vm2, vm1>>, 2)

AllGroups ==
  {Shared, LookedUp(<<vm1, vm2, vm3>>, 0), LookedUp(<<vm1, vm2, vm1>>, 1)}
OneLookedUp == {LookedUp(<<vm1, vm2, vm1>>, 0)}
=============================================================================
