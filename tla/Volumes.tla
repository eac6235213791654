------------------------------ MODULE Volumes ------------------------------
(***************************************************************************)
(* Partitions, mounts, path resolution and the names of FAT entries        *)
(* (kernel/fs/partition.cpp, vfs.cpp, fat32.cpp, boot in kmain.cpp, and the *)
(* commands mount and unmount).                                            *)
(*                                                                         *)
(* A path is a drive letter, or none, and a text: a sequence of characters, *)
(* since mounts are compared as texts.  Letters are in upper case; the     *)
(* lengths of buffers and the name "." are left out.                       *)
(***************************************************************************)
EXTENDS Integers, Sequences, FiniteSets, FiniteSetsExt, SequencesExt

CONSTANTS
  MAX_MOUNTS, MAX_PARTITIONS,
  Instances,     \* 4: FAT32 volumes that can be mounted, ever
  Characters,    \* of paths and names; a drive, or none, counts as one
  Digits,        \* 10: partitions whose paths boot can tell apart
  DriveLetters,  \* the letters from D on, in order
  GivenLetters,  \* letters given to mount, "none" among them
  MountPaths,    \* paths given to mount, unmount and chdir
  MaxCwd,        \* bound on the length of g_cwd
  Disk,          \* what disks look like
  BaseLen,       \* 8 and 3: the parts of an entry's name
  ExtLen,
  FileNames      \* names of files, without regard to case

NoLetter == "none"
Blank == " "
FilesystemType == {"UNKNOWN", "FAT12", "FAT16", "FAT32", "EXT2", "NTFS", "RAW"}
Entry == [usable : BOOLEAN, fs : FilesystemType]

\* The table has slots for the root and both paths of every instance but the last
\* (8 slots, 4 instances), and the letters from D on are distinct.
ASSUME VolumesAssumption ==
  /\ MAX_MOUNTS \in Nat \ {0} /\ MAX_PARTITIONS \in Nat /\ Instances \in Nat
  /\ MAX_MOUNTS >= 2 * Instances /\ Digits \in 1..10
  /\ DriveLetters \in Seq(Characters \ {"C", NoLetter}) /\ Len(DriveLetters) >= Instances
  /\ \A i, j \in DOMAIN DriveLetters : DriveLetters[i] = DriveLetters[j] => i = j
  /\ MountPaths \subseteq [drive : Characters, text : Seq(Characters)]
  /\ Disk \subseteq [signature : BOOLEAN, gpt_header : BOOLEAN, gpt : Seq(Entry), mbr : Seq(Entry),
                     raw : FilesystemType]
  /\ BaseLen \in Nat /\ ExtLen \in Nat /\ FileNames \subseteq Seq(Characters)

VARIABLES
  disk,
  booted,
  g_partitions,
  g_fat32_instance_count,
  volumes,        \* for every instance, its partition
  g_mount_table,
  g_cwd,
  file_name,      \* a name that is created
  done            \* the mount or unmount before, and whether it took a letter

volumeVars == <<disk, booted, g_partitions, g_fat32_instance_count, volumes, g_mount_table,
                g_cwd, file_name, done>>

RamRoot == 0                  \* roots: the RAM file system, then the instances
Nowhere == [root |-> -1, rest |-> <<>>]
FreeMount == [path |-> [drive |-> NoLetter, text |-> <<>>], letter |-> NoLetter, root |-> -1,
              in_use |-> FALSE]
Mount(path, letter, root) == [path |-> path, letter |-> letter, root |-> root, in_use |-> TRUE]
Nothing == [op |-> "none", path |-> [drive |-> NoLetter, text |-> <<>>], letter |-> NoLetter, taken |-> FALSE]
Digit(i) == <<"0", "1", "2", "3", "4", "5", "6", "7", "8", "9">>[(i % Digits) + 1]
Absolute(text) == [drive |-> NoLetter, text |-> text]

\* A sequence without the elements at other places than those to keep.
Kept(s, places) ==
  LET kept[i \in 0..Len(s)] ==
        IF i = 0 THEN <<>> ELSE IF i \in places THEN Append(kept[i - 1], s[i]) ELSE kept[i - 1]
  IN  kept[Len(s)]

----------------------------------------------------------------------------
(* Paths.                                                                  *)

Separators == {"/", "backslash"}

\* Separators become slashes, and runs of them one.
Squeezed(out, c) ==
  LET d == IF c \in Separators THEN "/" ELSE c
  IN  IF d = "/" /\ Last(out) = "/" THEN out ELSE Append(out, d)

\* A relative path goes on from g_cwd, whose drive becomes part of the text.
Joined(cwd, text) ==
  LET whole == IF cwd.drive = NoLetter THEN cwd.text ELSE <<cwd.drive, ":">> \o cwd.text
  IN  (IF Last(whole) = "/" THEN whole ELSE Append(whole, "/")) \o text

Squeeze(text) ==
  LET out[i \in 0..Len(text)] == IF i = 0 THEN <<"/">> ELSE Squeezed(out[i - 1], text[i])
  IN  out[Len(text)]

vfs_normalize_path(cwd, p) ==
  LET relative == p.drive = NoLetter /\ (p.text = <<>> \/ Head(p.text) \notin Separators)
      out == Squeeze(IF relative THEN Joined(cwd, p.text) ELSE p.text)
  IN  [drive |-> p.drive,
       text |-> IF Len(out) > 1 /\ Last(out) = "/" THEN Front(out) ELSE out]

\* Faulty variant: the beginning of a name is enough.
Covers_text(m, text) == IsPrefix(m, text)

Covers(m, text) ==
  m = <<"/">> \/ (IsPrefix(m, text) /\ (Len(m) = Len(text) \/ text[Len(m) + 1] = "/"))

Best(table, slots) ==
  Min({i \in slots : \A j \in slots : Len(table[j].path.text) <= Len(table[i].path.text)})

Below(text) == IF text # <<>> /\ Head(text) = "/" THEN Tail(text) ELSE text

\* The file system a path leads to, and what is left of the path there.
vfs_resolve_path(table, cwd, p) ==
  LET norm == vfs_normalize_path(cwd, p)
      used == {i \in DOMAIN table : table[i].in_use}
      byLetter == {i \in used : table[i].letter = norm.drive}
      byPath == {i \in used : table[i].path.drive = NoLetter /\ Covers(table[i].path.text, norm.text)}
  IN  IF norm.drive # NoLetter
      THEN IF byLetter # {} THEN [root |-> table[Min(byLetter)].root, rest |-> Below(norm.text)]
           ELSE IF norm.drive = "C" THEN [root |-> RamRoot, rest |-> Below(norm.text)] ELSE Nowhere
      ELSE IF byPath = {} THEN [root |-> RamRoot, rest |-> Below(norm.text)]
           ELSE LET m == table[Best(table, byPath)]
                IN  [root |-> m.root,
                     rest |-> Below(SubSeq(norm.text, Len(m.path.text) + 1, Len(norm.text)))]

----------------------------------------------------------------------------
(* Mounts.                                                                 *)

\* Faulty variant: a mount above the new one is replaced.
Replaces_above(table, path, letter) ==
  {i \in DOMAIN table :
     table[i].in_use /\ (IsPrefix(table[i].path.text, path.text)
                          \/ (letter # NoLetter /\ table[i].letter = letter))}

Replaces(table, path, letter) ==
  {i \in DOMAIN table :
     table[i].in_use /\ (table[i].path = path \/ (letter # NoLetter /\ table[i].letter = letter))}

FreeMounts(table) == {i \in DOMAIN table : ~table[i].in_use}

vfs_mount(table, path, letter, root) ==
  IF Replaces(table, path, letter) # {}
  THEN [table EXCEPT ![Min(Replaces(table, path, letter))] = Mount(path, letter, root)]
  ELSE IF FreeMounts(table) # {}
       THEN [table EXCEPT ![Min(FreeMounts(table))] = Mount(path, letter, root)]
       ELSE table

vfs_unmount(path) ==
  LET p == vfs_normalize_path(g_cwd, path)
      slots == {i \in DOMAIN g_mount_table : g_mount_table[i].in_use /\ g_mount_table[i].path = p}
  IN  /\ booted /\ slots # {}
      /\ g_mount_table' = [g_mount_table EXCEPT ![Min(slots)] = FreeMount]
      /\ done' = [op |-> "unmount", path |-> p, letter |-> NoLetter, taken |-> FALSE]
      /\ UNCHANGED <<disk, booted, g_partitions, g_fat32_instance_count, volumes, g_cwd, file_name>>

\* Only the first partition can be mounted, every time as a new instance.
cmd_mount(path, letter) ==
  LET p == vfs_normalize_path(g_cwd, path)
      root == g_fat32_instance_count + 1
  IN  /\ booted /\ g_partitions # <<>> /\ Head(g_partitions).fs = "FAT32"
      /\ g_fat32_instance_count < Instances
      /\ g_fat32_instance_count' = root
      /\ volumes' = Append(volumes, 1)
      /\ g_mount_table' = vfs_mount(g_mount_table, p, letter, root)
      /\ done' = [op |-> IF g_mount_table' = g_mount_table THEN "full" ELSE "mount",
                  path |-> p, letter |-> letter,
                  taken |-> \E m \in Range(g_mount_table) :
                              m.letter = letter /\ letter # NoLetter /\ m.path # p]
      /\ UNCHANGED <<disk, booted, g_partitions, g_cwd, file_name>>

\* The path leads to a directory.
vfs_chdir(path) ==
  /\ booted
  /\ g_cwd' = vfs_normalize_path(g_cwd, path)
  /\ Len(g_cwd'.text) <= MaxCwd
  /\ vfs_resolve_path(g_mount_table, g_cwd, g_cwd') # Nowhere
  /\ done' = Nothing
  /\ UNCHANGED <<disk, booted, g_partitions, g_fat32_instance_count, volumes, g_mount_table,
                 file_name>>

----------------------------------------------------------------------------
(* Partitions, and the mounts at boot.                                     *)

Usable(entries) == Kept(entries, {i \in DOMAIN entries : entries[i].usable})
Listed(entries, scheme) ==
  LET n == Min({Len(entries), MAX_PARTITIONS})
  IN  [i \in 1..n |-> [scheme |-> scheme, fs |-> entries[i].fs]]

\* A GPT counts, with or without a protective entry, if it lists anything.
partition_probe(d) ==
  IF ~d.signature THEN <<>>
  ELSE IF d.gpt_header /\ Usable(d.gpt) # <<>> THEN Listed(Usable(d.gpt), "GPT")
  ELSE IF Usable(d.mbr) # <<>> THEN Listed(Usable(d.mbr), "MBR")
  ELSE IF d.raw # "UNKNOWN" THEN <<[scheme |-> "NONE", fs |-> d.raw]>> ELSE <<>>

MntPath(i) == Absolute(<<"/", "mnt", "/">> \o <<Digit(i)>>)
AliasPath(i) == Absolute(<<"/">> \o <<Digit(i)>>)

BothPaths(table, i, root) ==
  vfs_mount(vfs_mount(table, MntPath(i), DriveLetters[root], root), AliasPath(i), NoLetter, root)

\* Mounts one partition, if it is FAT32 and there is an instance left.
BootMount(b, part) ==
  LET root == Len(b.volumes) + 1
      next == [b EXCEPT !.index = @ + 1]
  IN  IF part.fs # "FAT32" \/ root > Instances THEN next
      ELSE [next EXCEPT !.table = BothPaths(@, b.index, root), !.volumes = Append(@, b.index + 1)]

BootMounts(table, parts) ==
  LET boot[i \in 0..Len(parts)] ==
        IF i = 0 THEN [table |-> table, volumes |-> <<>>, index |-> 0]
        ELSE BootMount(boot[i - 1], parts[i])
  IN  boot[Len(parts)]

kernel_main ==
  /\ ~booted /\ booted' = TRUE
  /\ g_partitions' = partition_probe(disk)
  /\ LET b == BootMounts(g_mount_table, partition_probe(disk))
     IN  /\ g_mount_table' = b.table
         /\ volumes' = b.volumes
         /\ g_fat32_instance_count' = Len(b.volumes)
  /\ UNCHANGED <<disk, g_cwd, file_name, done>>

----------------------------------------------------------------------------
(* Names of entries: base and extension in fields of fixed length.         *)

Blanks(n) == [i \in 1..n |-> Blank]
Field(text, n) == SubSeq(text \o Blanks(n), 1, n)
Trimmed(field) == Kept(field, {i \in DOMAIN field : field[i] # Blank})
LastDot(name) == Max({0} \cup {i \in DOMAIN name : name[i] = "."})

Dot(name) == LastDot(name)

create_8_3_name(name) ==
  LET dot == Dot(name)
  IN  IF dot = 0 THEN [base |-> Field(name, BaseLen), ext |-> Blanks(ExtLen)]
      ELSE [base |-> Field(SubSeq(name, 1, dot - 1), BaseLen),
            ext |-> Field(SubSeq(name, dot + 1, Len(name)), ExtLen)]

format_8_3_name(entry) ==
  Trimmed(entry.base) \o
  (IF Trimmed(entry.ext) = <<>> THEN <<>> ELSE <<".">> \o Trimmed(entry.ext))

----------------------------------------------------------------------------
VolumesInit ==
  /\ disk \in Disk /\ booted = FALSE /\ g_partitions = <<>>
  /\ g_fat32_instance_count = 0 /\ volumes = <<>>
  /\ g_mount_table = [i \in 1..MAX_MOUNTS |->
       IF i = 1 THEN Mount(Absolute(<<"/">>), "C", RamRoot) ELSE FreeMount]
  /\ g_cwd = Absolute(<<"/">>) /\ done = Nothing
  /\ file_name \in FileNames

VolumesNext ==
  \/ kernel_main
  \/ \E p \in MountPaths : vfs_unmount(p) \/ vfs_chdir(p) \/ (\E l \in GivenLetters : cmd_mount(p, l))

VolumesSpec == VolumesInit /\ [][VolumesNext]_volumeVars

----------------------------------------------------------------------------
(* Properties.                                                             *)

\* vfs_normalize_path gives paths one form: it starts with a slash, has no two
\* in a row and none at the end, and is not changed by a second pass.
NormalForm ==
  \A p \in MountPaths :
    LET n == vfs_normalize_path(g_cwd, p)
        t == n.text
    IN  /\ Head(t) = "/" /\ (Len(t) > 1 => Last(t) # "/")
        /\ \A i \in 1..(Len(t) - 1) : ~(t[i] = "/" /\ t[i + 1] = "/")
        /\ vfs_normalize_path(g_cwd, n) = n

Slashed(text) == IF text = <<"/">> THEN text ELSE Append(text, "/")

\* A path without a letter leads into the mount that is deepest above it, by
\* whole names, and never into one whose path is merely how it begins.
LeadsToDeepest ==
  \A p \in MountPaths :
    LET n == vfs_normalize_path(g_cwd, p)
        above == {i \in DOMAIN g_mount_table :
                    /\ g_mount_table[i].in_use /\ g_mount_table[i].path.drive = NoLetter
                    /\ IsPrefix(Slashed(g_mount_table[i].path.text), Slashed(n.text))}
        deepest == {i \in above : \A j \in above :
                      Len(g_mount_table[j].path.text) <= Len(g_mount_table[i].path.text)}
    IN  n.drive = NoLetter /\ above # {} =>
          \E i \in deepest : vfs_resolve_path(g_mount_table, g_cwd, p).root = g_mount_table[i].root

\* After vfs_mount the path and the letter it was given lead to the new volume,
\* even if they belonged to two different mounts before, unless the table is full.
MountVisible ==
  done.op = "mount" =>
    /\ done.path.drive = NoLetter =>
         vfs_resolve_path(g_mount_table, g_cwd, done.path).root = g_fat32_instance_count
    /\ done.letter # NoLetter =>
         vfs_resolve_path(g_mount_table, g_cwd, [drive |-> done.letter, text |-> <<>>]).root
           = g_fat32_instance_count

\* A mount or an unmount changes nothing for paths that lie elsewhere, unless
\* the letter of a mount was in use: then what had it is no longer mounted.
MountLocal ==
  [][g_mount_table' # g_mount_table /\ booted /\ ~done'.taken =>
       \A q \in MountPaths :
         LET n == vfs_normalize_path(g_cwd, q)
         IN  n.drive = NoLetter /\ ~Covers(done'.path.text, n.text) =>
               vfs_resolve_path(g_mount_table', g_cwd, n) = vfs_resolve_path(g_mount_table, g_cwd, n)
     ]_volumeVars

\* A relative path leads where g_cwd and the path together lead, unless g_cwd
\* is on a drive: then its letter ends up as a name of a directory.
RelativeFollows ==
  \A p \in MountPaths :
    p.drive = NoLetter /\ g_cwd.drive = NoLetter /\ p.text # <<>> /\ Head(p.text) \notin Separators =>
      vfs_resolve_path(g_mount_table, g_cwd, p)
        = vfs_resolve_path(g_mount_table, Absolute(<<"/">>), Absolute(g_cwd.text \o <<"/">> \o p.text))

\* Every volume that boot has mounted is reached by its path and by its letter,
\* up to the last slot of the table, unless a later one has the same digit.
BootReaches ==
  [][kernel_main =>
       \A v \in DOMAIN volumes' :
         (\A w \in DOMAIN volumes' : w > v => (volumes'[w] - volumes'[v]) % Digits # 0) =>
           /\ vfs_resolve_path(g_mount_table', g_cwd, MntPath(volumes'[v] - 1)).root = v
           /\ vfs_resolve_path(g_mount_table', g_cwd, [drive |-> DriveLetters[v], text |-> <<>>]).root = v
     ]_volumeVars

\* A file is found under the name it was created with, and under no other, if
\* the parts of the name fit, its last part is not empty and it has no blanks.
NamesKept ==
  LET dot == LastDot(file_name)
      plain == \A i \in DOMAIN file_name : file_name[i] # Blank
      fits == IF dot = 0 THEN Len(file_name) <= BaseLen
              ELSE dot - 1 <= BaseLen /\ Len(file_name) - dot \in 1..ExtLen
  IN  plain /\ fits => \A n \in FileNames :
                format_8_3_name(create_8_3_name(file_name)) = n <=> file_name = n

\* Paths and names lead where they should, through mounts, unmounts and changes
\* of the working directory (vfs.cpp, the 8.3 names of fat32.cpp).
PathsLead == NormalForm /\ LeadsToDeepest /\ RelativeFollows /\ MountVisible /\ NamesKept

\* No mount, at boot or by command, takes away what others reach
\* (vfs_mount, vfs_unmount, kernel_main).
MountsKept == MountLocal /\ BootReaches

=============================================================================
