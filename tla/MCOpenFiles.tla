----------------------------- MODULE MCOpenFiles -----------------------------
(* Two processes over a FAT volume with the file /etc/passwd, mounted on "/",
   and the device file system mounted on "/dev".  The buckets are djb2 of the
   paths modulo 20. *)
EXTENDS OpenFiles, TLC

CONSTANTS fat, dev, p1, p2

MCTree == {<<fat, p>> : p \in {<<>>, <<"etc">>, <<"etc", "passwd">>}}
          \cup {<<dev, p>> : p \in {<<>>, <<"tty0">>}}
MCDirs == {<<fat, <<>>>>, <<fat, <<"etc">>>>, <<dev, <<>>>>}
MCDevices == {<<dev, <<"tty0">>>>}
MCMounts == <<[point |-> <<>>, fs |-> fat], [point |-> <<"dev">>, fs |-> dev]>>
MCSize == [n \in MCTree |-> IF n \in MCDirs \cup MCDevices THEN 0 ELSE 2]
MCBucket == (<<>> :> 0) @@ (<<"etc">> :> 0) @@ (<<"etc", "passwd">> :> 5) @@ (<<"tty0">> :> 13)

PasswdPath == <<"etc", "passwd">>
MCRequests == {<<>>, <<"etc">>, PasswdPath, <<"dev", "tty0">>, <<"etc", "none">>,
               <<"etc", "passwd", "x">>}
CollisionRequests == {<<>>, <<"etc">>}
PasswdRequests == {PasswdPath}
MCSymmetry == Permutations({p1, p2})
=============================================================================
