----------------------------- MODULE FileSystem -----------------------------
(***************************************************************************)
(* drivers/fs.c and drivers/initrd.c: the nodes of the file system and the *)
(* ramdisk that fills them from an image in memory, used by one client in  *)
(* any order.  The kernel does not call them yet.                          *)
(*                                                                         *)
(* A byte is named by its address; addresses and lengths are numbers       *)
(* modulo W (2^32 in the code).  A pointer to a function is the function's *)
(* name.  Memory that nothing has set is GARBAGE: read as a pointer it may *)
(* be 0 or may lead anywhere.                                              *)
(***************************************************************************)
EXTENDS Integers, Sequences

CONSTANTS
  W,            \* numbers are modulo W
  images,       \* ramdisks: sequences of headers with name, offset, length
  location,     \* multiboot_location: where the image is
  ROOT_NODES,   \* the address of the variable root_nodes
  Names,        \* names a client may look up
  Offsets,      \* positions it may read from
  Sizes,        \* sizes it may ask for
  Indices,      \* directory entries it may ask for
  GARBAGE,      \* the contents of memory that nothing has set
  NULL, ROOT, DEV   \* pointers to nodes: 0, initrd_root, initrd_dev; the
                    \* pointer &root_nodes[i] is i + 1

ASSUME FileSystemAssumption ==
  /\ W \in Nat \ {0} /\ location \in 1 .. W - 1 /\ ROOT_NODES \in 1 .. W - 1
  /\ Offsets \subseteq 0 .. W - 1 /\ Sizes \subseteq 0 .. W - 1
  /\ Indices \subseteq 0 .. W - 1
  /\ \A image \in images :
       /\ image \in Seq([name : Names, offset : Nat, length : Nat])
       /\ \A i \in 1 .. Len(image) :
            location + image[i].offset + image[i].length < W

\* The values that stand for pointers and for unset memory are no others
ASSUME PointersAssumption ==
  /\ NULL \notin Nat /\ ROOT \notin Nat /\ DEV \notin Nat
  /\ NULL # ROOT /\ NULL # DEV /\ ROOT # DEV
  /\ GARBAGE \notin {"0", "initrd_read", "initrd_readdir", "initrd_finddir", "dev"}
  /\ NULL \notin Names /\ GARBAGE \notin Names

\* Types of nodes
FS_FILE == 1
FS_DIRECTORY == 2

\* A callback that is 0
unset == "0"

\* The name in dirent before the first entry is listed: static memory is 0
no_name == ""

VARIABLES
  pc,             \* "boot", "ready", or "wild" when anything may happen
  image,          \* the image as the boot loader put it into memory
  file_headers,   \* the headers in that memory as they are now
  initrd_root,    \* the node of the root directory
  root_nodes,     \* the nodes of the files
  dirent,         \* the one entry that readdir fills
  mounts,         \* history: calls of init_ramdisk
  node,           \* the node the client holds
  pos,            \* where in it the client reads on
  copied,         \* what it has read since it went there
  call            \* the last call: what, with which argument, its result

disk == <<image, file_headers, initrd_root, root_nodes, mounts>>

client == <<node, pos, copied>>

vars == <<pc, disk, dirent, client, call>>

nroot_nodes == Len(root_nodes)

-----------------------------------------------------------------------------
(***************************************************************************)
(* init_ramdisk                                                            *)
(***************************************************************************)
directory_node(name) ==
  [name |-> name, flags |-> FS_DIRECTORY, inode |-> 0, length |-> 0,
   read |-> unset, write |-> unset, open |-> unset, close |-> unset,
   readdir |-> "initrd_readdir", finddir |-> "initrd_finddir"]

file_node_open_unset(i, header) ==
  [name |-> header.name, flags |-> FS_FILE, inode |-> i, length |-> header.length,
   read |-> "initrd_read", write |-> unset, open |-> GARBAGE, close |-> unset,
   readdir |-> unset, finddir |-> unset]

file_node(i, header) ==
  [name |-> header.name, flags |-> FS_FILE, inode |-> i, length |-> header.length,
   read |-> "initrd_read", write |-> unset, open |-> unset, close |-> unset,
   readdir |-> unset, finddir |-> unset]

\* The node behind NULL is low memory; init_ramdisk sets the fields of
\* initrd_root twice and those of initrd_dev never
garbage_node ==
  [name |-> GARBAGE, flags |-> GARBAGE, inode |-> GARBAGE, length |-> GARBAGE,
   read |-> GARBAGE, write |-> GARBAGE, open |-> GARBAGE, close |-> GARBAGE,
   readdir |-> GARBAGE, finddir |-> GARBAGE]

offsets_kept(headers) == headers

\* The offsets in the image become addresses in place
offsets_added(headers) ==
  [i \in 1 .. Len(headers) |->
     [headers[i] EXCEPT !.offset = (@ + location) % W]]

(***************************************************************************)
(* Bound: at most two calls.  The second one adds the location again.      *)
(***************************************************************************)
init_ramdisk ==
  /\ pc # "wild" /\ mounts < 2
  /\ pc' = "ready" /\ mounts' = mounts + 1
  /\ file_headers' = offsets_added(file_headers)
  /\ initrd_root' = directory_node("dev")
  /\ root_nodes' = [i \in 1 .. Len(image) |-> file_node(i - 1, file_headers[i])]
  /\ node' = ROOT /\ pos' = 0 /\ copied' = << >>
  /\ call' = [of |-> "init_ramdisk", arg |-> 0, size |-> 0, result |-> 0]
  /\ UNCHANGED <<image, dirent>>

deref(p) ==
  CASE p = ROOT -> initrd_root
    [] p \in {DEV, NULL} -> garbage_node
    [] OTHER -> root_nodes[p]

\* A jump to an address that nothing has set, or memory overwritten
wild == pc' = "wild" /\ UNCHANGED <<disk, dirent, client>>

\* The test for a callback finds none, and the function returns 0
no_callback(p) ==
  /\ p \in {unset, GARBAGE}
  /\ UNCHANGED <<pc, disk, dirent>>

-----------------------------------------------------------------------------
(***************************************************************************)
(* Reading                                                                 *)
(***************************************************************************)
cut_off_one_less(offset, size, length) ==
  IF (offset + size) % W > length /\ length > offset THEN length - offset - 1
  ELSE IF length = offset THEN 0 ELSE size

\* The size after "if(offset+size > header.length)", in unsigned arithmetic
cut_off(offset, size, length) ==
  IF (offset + size) % W > length THEN length - offset ELSE size

memcpy(src, n) == [k \in 1 .. n |-> (src + k - 1) % W]

(***************************************************************************)
(* A sum that wraps is not cut off: about W bytes are copied over whatever *)
(* lies behind the buffer.                                                 *)
(***************************************************************************)
initrd_read(n, size) ==
  LET header == file_headers[n.inode + 1]
      count == cut_off(pos, size, header.length)
  IN \/ /\ pos > header.length
        /\ call' = [of |-> "read", arg |-> pos, size |-> size, result |-> 0]
        /\ UNCHANGED <<pc, disk, dirent, client>>
     \/ /\ pos <= header.length
        /\ call' = [of |-> "read", arg |-> pos, size |-> size, result |-> count]
        /\ \/ pos + count > header.length /\ wild
           \/ /\ pos + count <= header.length
              /\ copied' = copied \o memcpy((header.offset + pos) % W, count)
              /\ pos' = pos + count
              /\ UNCHANGED <<pc, disk, dirent, node>>

\* The client reads on where it is
read_fs(size) ==
  /\ pc = "ready"
  /\ LET n == deref(node)
         called == call' = [of |-> "read", arg |-> pos, size |-> size, result |-> 0]
     IN \/ no_callback(n.read) /\ called /\ UNCHANGED client
        \/ n.read = GARBAGE /\ called /\ wild
        \/ n.read = "initrd_read" /\ initrd_read(n, size)

\* The next read is from another offset
Seek(offset) ==
  /\ pc = "ready"
  /\ pos' = offset /\ copied' = << >>
  /\ UNCHANGED <<pc, disk, dirent, node, call>>

\* write_fs, open_fs and close_fs: the ramdisk sets none of the callbacks
callback_fs(op) ==
  /\ pc = "ready"
  /\ LET p == deref(node)[op]
     IN \/ no_callback(p) /\ UNCHANGED client
        \/ p = GARBAGE /\ wild
  /\ call' = [of |-> op, arg |-> 0, size |-> 0, result |-> 0]

-----------------------------------------------------------------------------
(***************************************************************************)
(* Directories                                                             *)
(***************************************************************************)
entry_shifted(index) ==
  [name |-> root_nodes[index].name, ino |-> root_nodes[index].inode + 1]

entry(index) ==
  [name |-> root_nodes[index].name, ino |-> root_nodes[index].inode]

(***************************************************************************)
(* index - 1 is compared with the address of root_nodes: entries behind    *)
(* the last are read from whatever follows the nodes, and their names are  *)
(* copied without a bound.                                                 *)
(***************************************************************************)
initrd_readdir(index) ==
  \/ /\ index = 0
     /\ dirent' = [name |-> "dev", ino |-> 0]
     /\ call' = [of |-> "readdir", arg |-> index, size |-> 0, result |-> 1]
     /\ UNCHANGED <<pc, disk, client>>
  \/ /\ index # 0 /\ index - 1 >= ROOT_NODES
     /\ call' = [of |-> "readdir", arg |-> index, size |-> 0, result |-> 0]
     /\ UNCHANGED <<pc, disk, dirent, client>>
  \/ /\ index # 0 /\ index - 1 < ROOT_NODES
     /\ call' = [of |-> "readdir", arg |-> index, size |-> 0, result |-> 1]
     /\ \/ /\ index <= nroot_nodes
           /\ dirent' = entry(index)
           /\ UNCHANGED <<pc, disk, client>>
        \/ /\ index > nroot_nodes
           /\ dirent' = [name |-> GARBAGE, ino |-> GARBAGE]
           /\ UNCHANGED <<pc, disk, client>>
        \/ index > nroot_nodes /\ wild

\* The test of flags: of a garbage node it may have either result
directory_callback(n, p) == IF n.flags = FS_FILE THEN unset ELSE p

readdir_fs(index) ==
  /\ pc = "ready"
  /\ LET n == deref(node)
         p == directory_callback(n, n.readdir)
         called == call' = [of |-> "readdir", arg |-> index, size |-> 0, result |-> 0]
     IN \/ no_callback(p) /\ called /\ UNCHANGED client
        \/ p = GARBAGE /\ called /\ wild
        \/ p = "initrd_readdir" /\ initrd_readdir(index)

finddir_one_more(name) ==
  IF name = "dev" THEN DEV
  ELSE LET found == { i \in 1 .. nroot_nodes : root_nodes[i].name = name }
       IN IF found = {} THEN nroot_nodes + 1
          ELSE CHOOSE i \in found : \A j \in found : i <= j

\* "dev" is the directory whatever the image holds; the first file that has
\* the name
initrd_finddir(name) ==
  IF name = "dev" THEN DEV
  ELSE LET found == { i \in 1 .. nroot_nodes : root_nodes[i].name = name }
       IN IF found = {} THEN NULL
          ELSE CHOOSE i \in found : \A j \in found : i <= j

\* The client takes the result and starts at the beginning
holds(p) == node' = p /\ pos' = 0 /\ copied' = << >>

finddir_fs(name) ==
  /\ pc = "ready"
  /\ LET n == deref(node)
         p == directory_callback(n, n.finddir)
         found == initrd_finddir(name)
     IN \/ no_callback(p) /\ holds(NULL)
        \/ p = GARBAGE /\ wild
        \/ /\ p = "initrd_finddir"
           /\ holds(found)
           /\ UNCHANGED <<pc, disk, dirent>>
  /\ call' = [of |-> "finddir", arg |-> 0, size |-> 0, result |-> 0]

\* The client goes back to what init_ramdisk returned
ToRoot ==
  /\ pc = "ready"
  /\ holds(ROOT)
  /\ UNCHANGED <<pc, disk, dirent, call>>

-----------------------------------------------------------------------------
Init ==
  /\ pc = "boot" /\ image \in images /\ file_headers = image
  /\ initrd_root = garbage_node /\ root_nodes = << >> /\ mounts = 0
  /\ dirent = [name |-> no_name, ino |-> 0]
  /\ node = NULL /\ pos = 0 /\ copied = << >>
  /\ call = [of |-> "none", arg |-> 0, size |-> 0, result |-> 0]

Next ==
  \/ init_ramdisk \/ ToRoot
  \/ \E size \in Sizes : read_fs(size)
  \/ \E offset \in Offsets : Seek(offset)
  \/ \E op \in {"write", "open", "close"} : callback_fs(op)
  \/ \E index \in Indices : readdir_fs(index)
  \/ \E name \in Names : finddir_fs(name)

Spec == Init /\ [][Next]_vars

-----------------------------------------------------------------------------
is_file(p) == p \notin {NULL, ROOT, DEV}

\* However often the disk is mounted, init_ramdisk changes nothing of a header
\* but its offset, which stays a 32-bit number, and every file node leads back
\* to its own header; the shared dirent holds an entry of the directory or
\* what lies behind the last; the client's pointer is a node of the disk, and
\* what it has copied since it went there fits into the file before pos.
TypeOK ==
  /\ pc \in {"boot", "ready", "wild"} /\ image \in images /\ mounts \in 0 .. 2
  /\ Len(file_headers) = Len(image) /\ nroot_nodes \in {0, Len(image)}
  /\ \A i \in 1 .. Len(image) :
       /\ file_headers[i].name = image[i].name
       /\ file_headers[i].length = image[i].length
       /\ file_headers[i].offset \in 0 .. W - 1
  /\ \A i \in 1 .. nroot_nodes :
       /\ root_nodes[i].inode = i - 1
       /\ root_nodes[i].length = file_headers[i].length
  /\ \/ dirent \in [name : {no_name, "dev"}, ino : {0}]
     \/ dirent = [name |-> GARBAGE, ino |-> GARBAGE]
     \/ \E i \in 1 .. Len(image) : dirent = [name |-> image[i].name, ino |-> i - 1]
  /\ node \in {NULL, ROOT, DEV} \cup 1 .. nroot_nodes
  /\ pos \in 0 .. W - 1
  /\ \A k \in 1 .. Len(copied) : copied[k] \in 0 .. W - 1
  /\ copied # << >>
     => is_file(node) /\ Len(copied) <= pos /\ pos <= image[node].length

\* The bytes of the file whose header is the i-th of the image
contents(i) ==
  [k \in 1 .. image[i].length |-> location + image[i].offset + k - 1]

\* Headers with the name of a file that finddir can reach
headers_of(name) == { i \in 1 .. Len(image) : image[i].name = name }

files ==
  [name \in { image[i].name : i \in 1 .. Len(image) } \ {"dev"} |->
     contents(CHOOSE i \in headers_of(name) : \A j \in headers_of(name) : i <= j)]

\* A read that returns fewer bytes than were asked for means the end of the
\* file (initrd_read): a client that copies until then, in pieces of any
\* sizes, has every byte from where it started.
ShortReadMeansEnd ==
  (/\ call.of = "read" /\ is_file(node) /\ mounts = 1 /\ pc = "ready"
   /\ copied # << >> /\ call.result < call.size /\ call.arg + call.result = pos)
  => LET file == contents(node)
     IN copied = SubSeq(file, pos - Len(copied) + 1, Len(file))

\* What readdir lists, finddir finds: the node with the listed inode number,
\* for a name that no other file of the image has and that is not "dev".
ListedIsFound ==
  (pc = "ready" /\ \E i \in 1 .. Len(image) : headers_of(dirent.name) = {i})
  => \/ dirent.name \in {no_name, "dev"}
     \/ /\ is_file(initrd_finddir(dirent.name))
        /\ root_nodes[initrd_finddir(dirent.name)].inode = dirent.ino

\* The functions of fs.c never call through a pointer that nothing set, nor
\* copy over memory that is not the client's, unless the client uses NULL or
\* the node of /dev, reads with a sum of offset and size that wraps, or lists
\* behind the last entry.
WildOnlyOutsideContract ==
  pc = "wild" =>
    \/ node \in {NULL, DEV}
    \/ call.of = "read" /\ call.arg + call.size >= W
    \/ call.of = "readdir" /\ call.arg > nroot_nodes

\* The archive a client sees: nothing before init_ramdisk; the contract also
\* asks for one call of it only
AFiles == IF mounts = 0 THEN << >> ELSE files

ACur == IF is_file(node) THEN root_nodes[node].name ELSE NULL

ATrusted == pc # "wild" /\ mounts <= 1

archive ==
  INSTANCE Archive
    WITH files <- AFiles, cur <- ACur, trusted <- ATrusted, NoFile <- NULL

\* A client within the contract sees an archive: names stand for the files
\* of the image, and reads deliver their bytes in order and nothing else.
ImplementsArchive == archive!Spec
=============================================================================
