---------------------------- MODULE MCOwnership ----------------------------
(***************************************************************************)
(* Instances of Ownership for TLC: a few names and inode numbers, of which *)
(* the calls of a scene make, link, rename and remove any number of files. *)
(***************************************************************************)
EXTENDS Ownership, TLC

CONSTANTS p1, p2, a, b, c, x

\* The modes of every type with the permissions of the run.
MCModes == {TypeBits[t] + m : t \in Types \cup {"none"}, m \in Perms}

\* chown(1, -1) and chown(-1, 1)
MCChowns == {<<1, Unchanged>>, <<Unchanged, 1>>}
Zero == <<0, 0>>

\* The names of p1 and of p2.
By(names1, names2) == (p1 :> names1) @@ (p2 :> names2)

\* A umask that leaves all permissions.
Leaves == [m \in Perms |-> m]

Calls(own, kinds) ==
    [own |-> own, reads |-> By({}, {}), kinds |-> kinds, inodes |-> {1, 2},
     perms |-> {0}, nodes |-> {"chr"}, umask |-> Leaves, dirlinks |-> 2,
     refused |-> FALSE]

NamingKinds ==
    {"creat", "mkdir", "link", "rename", "noreplace", "unlink", "rmdir", "mknod", "chown"}

\* One process makes, links, renames and removes files of every kind.
Naming ==
    [Calls(By({a, b, c}, {}), NamingKinds) EXCEPT !.inodes = Keys, !.dirlinks = 1]

\* It changes their metadata, through links and descriptors too.
Changing ==
    [Calls(By({a, b}, {}),
           {"creat", "symlink", "mkdir", "link", "open", "chmod", "fchmod",
            "chown", "fchown", "lchown", "setxattr", "removexattr", "lstat", "fstat"})
        EXCEPT !.perms = {0, 1}]

\* Two processes do so on different names; only the inode numbers are shared.
Apart ==
    Calls(By({a, b}, {c}),
          {"creat", "link", "rename", "unlink", "mknod", "chown", "setxattr", "stat"})

\* mknod makes files, pipes and devices; a file's mode is changed.
Making ==
    [Calls(By({a, b}, {}), {"mknod", "link", "rename", "unlink", "chown"})
        EXCEPT !.perms = {0, 1}, !.nodes = {"reg", "chr", "fifo"}]
MakingFiles ==
    [Calls(By({a, b}, {}), {"mknod", "creat", "rename", "unlink", "chmod"})
        EXCEPT !.perms = {0, 1}, !.nodes = {"reg"}]

\* One process stats the files of another that makes and changes them.
Watching ==
    [Calls(By({a, b}, {}),
           {"creat", "symlink", "chmod", "chown", "stat", "lstat"})
        EXCEPT !.reads = By({}, {a, b}), !.perms = {0, 1}]

\* Calls that the real system refuses.
Refused ==
    [Calls(By({a, b}, {}), NamingKinds \cup {"exchange"})
        EXCEPT !.dirlinks = 1, !.refused = TRUE]

\* A node is moved away while mknod makes it, and the real mknod follows.
Moving ==
    [Calls(By({a}, {a, b}), {"mknod", "noreplace"})
        EXCEPT !.nodes = {"chr", "none"}, !.refused = TRUE]

Sound == {Naming, Changing, Apart, Making, MakingFiles, Watching, Refused, Moving}

(***************************************************************************)
(* Scenes in which a property fails.                                       *)
(***************************************************************************)
\* Directories have two links.
Directories == {Calls(By({a, b}, {}), {"mkdir", "chown", "rmdir"})}

\* unlink of a symbolic link.
Links == {Calls(By({a, b}, {}), {"creat", "symlink", "chown", "unlink"})}

\* unlink of a file that is open.
OpenFiles == {Calls(By({a, b}, {}), {"creat", "open", "fchown", "unlink"})}

\* chmod of a device made by mknod.
Devices == {[Calls(By({a, b}, {}), {"mknod", "chmod"}) EXCEPT !.perms = {0, 1}]}

\* mknod under a umask, and with a mode without type.
Umasks ==
    {[Calls(By({a, b}, {}), {"mknod"})
        EXCEPT !.perms = {1}, !.nodes = {"fifo"}, !.umask = [m \in Perms |-> 0]]}
Untyped == {[Calls(By({a, b}, {}), {"mknod"}) EXCEPT !.nodes = {"none"}]}

\* Two files exchange their names.
Exchanges == {Calls(By({a, b}, {}), {"creat", "chown", "exchange"})}

\* A file is removed while another process stats it.
Readers ==
    {[Calls(By({a, b}, {}), {"creat", "chown", "unlink", "stat"})
        EXCEPT !.reads = By({}, {a, b})]}

\* Two processes work on one name: one changes its file while the other
\* removes it, or both change it.
Removers == {Calls(By({a, b}, {a, b}), {"creat", "chown", "unlink"})}
Writers ==
    {[Calls(By({a, b}, {a, b}), {"creat", "chown", "chmod"}) EXCEPT !.perms = {0, 1}]}
=============================================================================
