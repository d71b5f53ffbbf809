---------------------------- MODULE MCBlockDevice ----------------------------
(***************************************************************************)
(* Instances of BlockDevice for TLC: a device known under two paths, a     *)
(* device encrypted with LUKS2 and one with a ZFS pool, and requests that  *)
(* get in each other's way: for the same device, mapping name or pool.     *)
(***************************************************************************)
EXTENDS BlockDevice, TLC

CONSTANTS d1, d2, d3, path1, alias1, path2, path3, key, wrong, name, pool, t1, t2

MCDeviceAt == (path1 :> d1) @@ (alias1 :> d1) @@ (path2 :> d2) @@ (path3 :> d3)

Content(form, k, p, d) == [form |-> form, key |-> k, pool |-> p, data |-> d]
MCDisk0 == (d1 :> Content("blank", None, None, d1)) @@ (d2 :> Content("luks2", key, None, d2))
           @@ (d3 :> Content("zfs", key, pool, d3))

Luks(source, kind, path, k, n, integrity, t) ==
  [encryption |-> "luks2", source |-> source, kind |-> kind, path |-> path, key |-> k,
   name |-> n, integrity |-> integrity, target |-> t]
Zfs(source, path, k, t) ==
  [Luks(source, "fileSystem", path, k, pool, FALSE, t) EXCEPT !.encryption = "zfs"]

MCParams ==
  { Luks("empty", "device", path1, None, None, FALSE, t1),
    Luks("empty", "fileSystem", path1, key, None, FALSE, t2),
    Luks("empty", "fileSystem", alias1, key, name, TRUE, t2),
    Luks("empty", "fileSystem", path2, None, name, FALSE, t1),
    Luks("encrypted", "fileSystem", path2, key, name, FALSE, t1),
    Luks("encrypted", "device", path2, wrong, None, FALSE, t2),
    Luks("encrypted", "device", path2, key, None, FALSE, t2),
    Zfs("empty", path1, key, t1),
    Zfs("encrypted", path3, key, t2),
    Zfs("encrypted", path3, wrong, t1) }
=============================================================================
