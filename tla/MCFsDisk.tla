------------------------------ MODULE MCFsDisk ------------------------------
(***************************************************************************)
(* Instances of FsDisk.  A free block is cleared, and the inode of a free  *)
(* number written, before either is read, so states that differ in what    *)
(* was left in them behave alike: View makes them one.  That holds as long *)
(* as calls are neither cut short nor interleaved.                         *)
(***************************************************************************)
EXTENDS FsDisk, TLC
CONSTANTS p, q, n1, n2, n3, n4, n5
Symmetric == Permutations({n1, n2}) \cup Permutations({n3, n4, n5}) \cup Permutations(Proc)

LiveInodes(t) == [i \in DOMAIN t |-> IF i \in imem \cup disk.ibits THEN t[i] ELSE inode_init]
LiveBlocks(f, zero) == [n \in Block |-> IF n - 1 \in bmem \cup disk.bbits THEN f[n] ELSE zero]
Live == <<[disk EXCEPT !.inode = LiveInodes(@), !.ents = LiveBlocks(@, ZeroSector),
                       !.tab = LiveBlocks(@, ZeroTable)],
          imem, bmem, core, [x \in Proc |-> [r[x] EXCEPT !.table = LiveInodes(@)]], fault>>
View == <<setup, IF Alone THEN Live ELSE vars>>

Setup(users, ops, names, inodes, blocks, slots, fails) ==
    [users |-> users, ops |-> ops, names |-> names, inodes |-> inodes,
     blocks |-> blocks, slots |-> slots, fails |-> fails]
MCSetups == {
    Setup({p}, {"create", "append", "mkdir", "unlink", "rmdir"}, {n1, n2, n3}, 3, 8, 3, 0),
    Setup({p}, {"create", "unlink"}, {n1, n2, n3, n4, n5}, 6, 8, 2, 0),
    Setup({p}, {"mkdir", "rmdir"}, {n1, n2}, 3, 8, 4, 2),
    Setup({p, q}, {"create", "mkdir"}, {n1, n2}, 3, 8, 2, 0),
    Setup({p}, {"create", "append", "mkdir", "unlink", "rmdir"}, {n1, n2}, 3, 2, 4, 0)}
MCRace == {Setup({p, q}, {"create"}, {n1, n2}, 3, 8, 3, 0)}
=============================================================================
