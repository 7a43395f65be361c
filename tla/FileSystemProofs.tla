-------------------------- MODULE FileSystemProofs --------------------------
(***************************************************************************)
(* The ramdisk of drivers/initrd.c keeps to what a file system promises,   *)
(* for every image, every set of names, offsets and sizes and every width  *)
(* of the numbers.                                                         *)
(***************************************************************************)
EXTENDS FileSystem, SequenceTheorems, WellFoundedInduction, TLAPS

Header == [name : Names, offset : Nat, length : Nat]

Byte == 0 .. W - 1

\* pc and mounts agree; before init_ramdisk nothing is set
Phase ==
  /\ pc \in {"boot", "ready", "wild"} /\ mounts \in 0 .. 2
  /\ image \in images
  /\ pc = "boot" <=> mounts = 0
  /\ mounts = 0 => root_nodes = << >> /\ node = NULL /\ pos = 0 /\ copied = << >>

\* init_ramdisk changes nothing but the offsets of the headers
Headers ==
  /\ file_headers \in Seq(Header) /\ Len(file_headers) = Len(image)
  /\ \A i \in 1 .. Len(image) :
       /\ file_headers[i].name = image[i].name
       /\ file_headers[i].length = image[i].length
       /\ file_headers[i].offset \in Byte
       /\ mounts = 0 => file_headers[i].offset = image[i].offset
       /\ mounts = 1 => file_headers[i].offset = location + image[i].offset

Nodes ==
  mounts # 0 =>
    /\ initrd_root = directory_node("dev")
    /\ root_nodes = [i \in 1 .. Len(image) |-> file_node(i - 1, image[i])]

\* A file the client holds is the first one with its name
First(i) ==
  /\ i \in 1 .. Len(image) /\ image[i].name # "dev"
  /\ \A j \in 1 .. Len(image) : image[j].name = image[i].name => i <= j

Held == node \in {NULL, ROOT, DEV} \/ First(node)

Listed ==
  \/ dirent = [name |-> no_name, ino |-> 0]
  \/ dirent = [name |-> "dev", ino |-> 0]
  \/ dirent = [name |-> GARBAGE, ino |-> GARBAGE]
  \/ \E i \in 1 .. Len(image) : dirent = [name |-> image[i].name, ino |-> i - 1]

\* What was copied ends at pos and has no gap
Delivered ==
  /\ pos \in Byte /\ copied \in Seq(Byte)
  /\ copied # << >> => is_file(node) /\ Len(copied) <= pos /\ pos <= image[node].length
  /\ mounts = 1 => \A k \in 1 .. Len(copied) :
       copied[k] = location + image[node].offset + pos - Len(copied) + k - 1
  /\ (copied # << >> /\ call.of = "read" /\ call.result < call.size)
     => pos = image[node].length

IInv ==
  /\ Phase /\ Headers /\ Nodes /\ Held /\ Listed /\ Delivered
  /\ WildOnlyOutsideContract

-----------------------------------------------------------------------------
\* A set of naturals that is not empty has a least element, which is what
\* the first match of a search is.
LEMMA NatMin ==
  ASSUME NEW T, T \subseteq Nat, T # {}
  PROVE  \E x \in T : \A y \in T : x <= y
<1> DEFINE R == OpToRel(<, Nat)
<1>1. IsWellFoundedOn(R, Nat)
  BY NatLessThanWellFounded
<1>2. \A i, j \in Nat : j < i => <<j, i>> \in R
  BY DEF OpToRel
<1> HIDE DEF R
<1>3. PICK x \in T : \A y \in T : ~ (<<y, x>> \in R)
  BY <1>1, WFMin
<1>4. ASSUME NEW y \in T PROVE x <= y
  <2>1. x \in Nat /\ y \in Nat
    OBVIOUS
  <2>2. ~ (y < x)
    BY <1>2, <1>3, <2>1
  <2> QED
    BY <2>1, <2>2
<1> QED
  BY <1>4

LEMMA ModSmall ==
  ASSUME W \in Nat, NEW x \in 0 .. W - 1
  PROVE  x % W = x
OBVIOUS

\* An image is a sequence of headers whose files lie below W.
LEMMA ImageFacts ==
  ASSUME IInv
  PROVE  /\ image \in Seq(Header) /\ Len(image) \in Nat
         /\ W \in Nat /\ location \in Nat
         /\ \A i \in 1 .. Len(image) :
              /\ image[i] \in Header
              /\ image[i].name \in Names
              /\ image[i].offset \in Nat /\ image[i].length \in Nat
              /\ location + image[i].offset + image[i].length < W
<1>1. image \in images
  BY DEF IInv, Phase
<1>2. image \in Seq(Header)
  BY <1>1, FileSystemAssumption DEF Header
<1>3. \A i \in 1 .. Len(image) :
        location + image[i].offset + image[i].length < W
  BY <1>1, FileSystemAssumption
<1>4. \A i \in 1 .. Len(image) : image[i] \in Header
  BY <1>2
<1>5. W \in Nat /\ location \in Nat /\ Len(image) \in Nat
  BY <1>2, FileSystemAssumption
<1> QED
  BY <1>2, <1>3, <1>4, <1>5 DEF Header

\* The node the client holds is the root, one that nothing has set, or that
\* of a file.
LEMMA NodeKinds ==
  ASSUME IInv, mounts # 0
  PROVE  \/ node = ROOT /\ ~ is_file(node) /\ deref(node) = directory_node("dev")
         \/ node \in {NULL, DEV} /\ ~ is_file(node) /\ deref(node) = garbage_node
         \/ /\ First(node) /\ is_file(node)
            /\ deref(node) = file_node(node - 1, image[node])
<1>1. node \in {NULL, ROOT, DEV} \/ First(node)
  BY DEF IInv, Held
<1>2. CASE node = ROOT
  BY <1>2, PointersAssumption DEF IInv, Nodes, deref, is_file
<1>3. CASE node \in {NULL, DEV}
  BY <1>3, PointersAssumption DEF deref, is_file
<1>4. CASE First(node)
  <2>1. node \in 1 .. Len(image) /\ Len(image) \in Nat
    BY <1>4, ImageFacts DEF First
  <2>2. node \notin {NULL, ROOT, DEV}
    BY <2>1, PointersAssumption
  <2>3. deref(node) = root_nodes[node]
    BY <2>2 DEF deref
  <2>4. root_nodes[node] = file_node(node - 1, image[node])
    BY <2>1 DEF IInv, Nodes
  <2> QED
    BY <1>4, <2>2, <2>3, <2>4 DEF is_file
<1> QED
  BY <1>1, <1>2, <1>3, <1>4

\* Before init_ramdisk the headers are those of the image.
LEMMA InitEstablishes == Init => IInv
<1> SUFFICES ASSUME Init PROVE IInv
  OBVIOUS
<1>1. /\ pc = "boot" /\ image \in images /\ file_headers = image
      /\ root_nodes = << >> /\ mounts = 0 /\ node = NULL /\ pos = 0
      /\ copied = << >>
  BY DEF Init
<1>2. dirent = [name |-> no_name, ino |-> 0]
  BY DEF Init
<1>3. Phase
  BY <1>1 DEF Phase
<1>4. image \in Seq(Header)
  BY <1>1, FileSystemAssumption DEF Header
<1>5. Headers
  <2>1. ASSUME NEW i \in 1 .. Len(image) PROVE image[i].offset \in Byte
    <3>1. location + image[i].offset + image[i].length < W
      BY <1>1, FileSystemAssumption
    <3>2. image[i] \in Header
      BY <1>4
    <3>3. image[i].offset \in Nat /\ image[i].length \in Nat
      BY <3>2 DEF Header
    <3> QED
      BY <3>1, <3>3, FileSystemAssumption DEF Byte
  <2> QED
    BY <1>1, <1>4, <2>1 DEF Headers
<1>6. Nodes /\ Held /\ Listed
  BY <1>1, <1>2, Zenon DEF Nodes, Held, Listed
<1>7. 0 \in Byte
  BY FileSystemAssumption DEF Byte
<1>8. Delivered
  BY <1>1, <1>7 DEF Delivered
<1>9. WildOnlyOutsideContract
  BY <1>1 DEF WildOnlyOutsideContract
<1> QED
  BY <1>3, <1>5, <1>6, <1>8, <1>9 DEF IInv

\* init_ramdisk makes one node for each header.
LEMMA NodeCount ==
  ASSUME IInv
  PROVE  /\ nroot_nodes \in Nat
         /\ mounts # 0 => nroot_nodes = Len(image)
         /\ mounts = 0 => nroot_nodes = 0
<1>1. CASE mounts = 0
  <2>1. root_nodes = << >>
    BY <1>1 DEF IInv, Phase
  <2> QED
    BY <1>1, <2>1 DEF nroot_nodes
<1>2. CASE mounts # 0
  <2>1. root_nodes = [i \in 1 .. Len(image) |-> file_node(i - 1, image[i])]
    BY <1>2 DEF IInv, Nodes
  <2>2. Len(image) \in Nat
    BY ImageFacts
  <2>3. Len(root_nodes) = Len(image)
    BY <2>1, <2>2
  <2> QED
    BY <1>2, <2>2, <2>3 DEF nroot_nodes
<1> QED
  BY <1>1, <1>2

\* finddir finds the first file that has the name, or NULL if there is none.
LEMMA FindResult ==
  ASSUME IInv, mounts # 0, NEW name
  PROVE  \/ name = "dev" /\ initrd_finddir(name) = DEV
         \/ name # "dev" /\ headers_of(name) = {} /\ initrd_finddir(name) = NULL
         \/ /\ name # "dev" /\ First(initrd_finddir(name))
            /\ initrd_finddir(name) \in headers_of(name)
            /\ \A j \in headers_of(name) : initrd_finddir(name) <= j
<1> DEFINE found == { i \in 1 .. nroot_nodes : root_nodes[i].name = name }
<1>1. CASE name = "dev"
  BY <1>1 DEF initrd_finddir
<1>2. CASE name # "dev"
  <2>1. nroot_nodes = Len(image) /\ Len(image) \in Nat
    BY NodeCount, ImageFacts
  <2>2. \A i \in 1 .. Len(image) : root_nodes[i].name = image[i].name
    BY DEF IInv, Nodes, file_node
  <2>3. found = headers_of(name)
    BY <2>1, <2>2 DEF headers_of
  <2>4. initrd_finddir(name) =
          IF found = {} THEN NULL ELSE CHOOSE i \in found : \A j \in found : i <= j
    BY <1>2 DEF initrd_finddir
  <2> HIDE DEF found
  <2>5. CASE found = {}
    BY <1>2, <2>3, <2>4, <2>5
  <2>6. CASE found # {}
    <3>1. found \subseteq Nat
      BY <2>1, <2>3 DEF headers_of
    <3>2. \E i \in found : \A j \in found : i <= j
      BY <2>6, <3>1, NatMin
    <3>3. /\ initrd_finddir(name) \in found
          /\ \A j \in found : initrd_finddir(name) <= j
      BY <2>4, <2>6, <3>2
    <3>4. First(initrd_finddir(name))
      BY <1>2, <2>3, <3>3 DEF First, headers_of
    <3> QED
      BY <1>2, <2>3, <3>3, <3>4
  <2> QED
    BY <2>5, <2>6
<1> QED
  BY <1>1, <1>2

-----------------------------------------------------------------------------
\* What a read may do: return 0 and leave everything alone; copy what is left
\* of the file, up to the size; or leave the contract.
ReadNothing(size) ==
  /\ ~ is_file(node) \/ pos > image[node].length
  /\ call' = [of |-> "read", arg |-> pos, size |-> size, result |-> 0]
  /\ UNCHANGED <<pc, disk, dirent, client>>

ReadCount(size) ==
  IF pos + size > image[node].length THEN image[node].length - pos ELSE size

ReadSome(size) ==
  /\ is_file(node) /\ pos <= image[node].length
  /\ call' = [of |-> "read", arg |-> pos, size |-> size, result |-> ReadCount(size)]
  /\ copied' = copied \o memcpy((file_headers[node].offset + pos) % W, ReadCount(size))
  /\ pos' = pos + ReadCount(size)
  /\ UNCHANGED <<pc, disk, dirent, node>>

ReadWild(size) ==
  /\ node \in {NULL, DEV} \/ pos + size >= W
  /\ call' .of = "read" /\ call' .arg = pos /\ call' .size = size
  /\ ~ is_file(node) \/ call' .result = size
  /\ wild

LEMMA ReadEffect ==
  ASSUME IInv, mounts # 0, NEW size \in Sizes, read_fs(size)
  PROVE  ReadNothing(size) \/ ReadSome(size) \/ ReadWild(size)
<1> DEFINE n == deref(node)
           called == call' = [of |-> "read", arg |-> pos, size |-> size, result |-> 0]
<1>1. \/ no_callback(n.read) /\ called /\ UNCHANGED client
      \/ n.read = GARBAGE /\ called /\ wild
      \/ n.read = "initrd_read" /\ initrd_read(n, size)
  BY DEF read_fs
<1>2. CASE node = ROOT /\ ~ is_file(node) /\ n = directory_node("dev")
  <2>1. n.read = "0"
    BY <1>2 DEF directory_node, unset
  <2>2. no_callback(n.read) /\ called /\ UNCHANGED client
    BY <1>1, <2>1, PointersAssumption
  <2> QED
    BY <1>2, <2>2 DEF ReadNothing, no_callback
<1>3. CASE node \in {NULL, DEV} /\ ~ is_file(node) /\ n = garbage_node
  <2>1. n.read = GARBAGE
    BY <1>3 DEF garbage_node
  <2>2. \/ no_callback(n.read) /\ called /\ UNCHANGED client
        \/ called /\ wild
    BY <1>1, <2>1, PointersAssumption
  <2>3. CASE no_callback(n.read) /\ called /\ UNCHANGED client
    BY <1>3, <2>3 DEF ReadNothing, no_callback
  <2>4. CASE called /\ wild
    BY <1>3, <2>4 DEF ReadWild
  <2> QED
    BY <2>2, <2>3, <2>4
<1>4. CASE First(node) /\ is_file(node) /\ n = file_node(node - 1, image[node])
  <2>1. node \in 1 .. Len(image) /\ Len(image) \in Nat /\ W \in Nat
        /\ image[node].length \in Nat /\ image[node].length < W
    BY <1>4, ImageFacts DEF First
  <2>2. n.read = "initrd_read" /\ n.inode = node - 1
    BY <1>4 DEF file_node
  <2>3. initrd_read(n, size)
    BY <1>1, <2>2, PointersAssumption DEF no_callback, unset
  <2>4. n.inode + 1 = node
    BY <2>1, <2>2
  <2> DEFINE header == file_headers[node]
             count == cut_off(pos, size, header.length)
  <2>5. header.length = image[node].length
    BY <2>1 DEF IInv, Headers
  <2>6. pos \in Nat /\ pos < W /\ size \in Nat /\ size < W
    BY FileSystemAssumption DEF IInv, Delivered, Byte
  <2> HIDE DEF header, n
  <2>7. \/ /\ pos > header.length
           /\ call' = [of |-> "read", arg |-> pos, size |-> size, result |-> 0]
           /\ UNCHANGED <<pc, disk, dirent, client>>
        \/ /\ pos <= header.length
           /\ call' = [of |-> "read", arg |-> pos, size |-> size, result |-> count]
           /\ \/ pos + count > header.length /\ wild
              \/ /\ pos + count <= header.length
                 /\ copied' = copied \o memcpy((header.offset + pos) % W, count)
                 /\ pos' = pos + count
                 /\ UNCHANGED <<pc, disk, dirent, node>>
    BY <2>3, <2>4 DEF initrd_read, header
  <2>8. CASE /\ pos > header.length
             /\ call' = [of |-> "read", arg |-> pos, size |-> size, result |-> 0]
             /\ UNCHANGED <<pc, disk, dirent, client>>
    BY <2>5, <2>8 DEF ReadNothing
  <2>9. (pos + size) % W = IF pos + size < W THEN pos + size ELSE pos + size - W
    BY <2>1, <2>6
  <2>10. ASSUME pos <= header.length
         PROVE  \/ count = ReadCount(size) /\ pos + count <= header.length
                \/ count = size /\ pos + size >= W
    <3> DEFINE sum == (pos + size) % W
               length == image[node].length
    <3>1. sum = IF pos + size < W THEN pos + size ELSE pos + size - W
      BY <2>9
    <3>2. count = IF sum > length THEN length - pos ELSE size
      BY <2>5 DEF cut_off
    <3>3. ReadCount(size) = IF pos + size > length THEN length - pos ELSE size
      BY DEF ReadCount
    <3>4. length \in Nat /\ length < W /\ pos <= length
      BY <2>1, <2>5, <2>10
    <3> HIDE DEF sum, count, length
    <3>5. CASE pos + size < W
      BY <2>6, <3>1, <3>2, <3>3, <3>4, <3>5, <2>5 DEF length
    <3>6. CASE pos + size >= W
      BY <2>1, <2>6, <3>1, <3>2, <3>3, <3>4, <3>6, <2>5 DEF length
    <3> QED
      BY <2>1, <2>6, <3>5, <3>6
  <2>11. CASE /\ pos <= header.length /\ pos + count > header.length /\ wild
              /\ call' = [of |-> "read", arg |-> pos, size |-> size, result |-> count]
    <3>1. pos + size >= W /\ count = size
      BY <2>1, <2>5, <2>6, <2>10, <2>11 DEF ReadCount
    <3>2. /\ call' .of = "read" /\ call' .arg = pos /\ call' .size = size
          /\ call' .result = size
      BY <2>11, <3>1
    <3> QED
      BY <2>11, <3>1, <3>2 DEF ReadWild
  <2>12. CASE /\ pos <= header.length /\ pos + count <= header.length
              /\ call' = [of |-> "read", arg |-> pos, size |-> size, result |-> count]
              /\ copied' = copied \o memcpy((header.offset + pos) % W, count)
              /\ pos' = pos + count
              /\ UNCHANGED <<pc, disk, dirent, node>>
    <3>1. count = ReadCount(size)
      BY <2>1, <2>5, <2>6, <2>10, <2>12
    <3> HIDE DEF count
    <3> QED
      BY <1>4, <2>5, <2>12, <3>1 DEF ReadSome, header
  <2> HIDE DEF count
  <2> QED
    BY <2>7, <2>8, <2>11, <2>12
<1> QED
  BY <1>2, <1>3, <1>4, NodeKinds

\* readdir fills dirent, and leaves the contract only behind the last entry
\* or through a node that nothing has set.
LEMMA ReaddirEffect ==
  ASSUME IInv, mounts # 0, NEW index \in Indices, readdir_fs(index)
  PROVE  /\ call' .of = "readdir" /\ UNCHANGED <<disk, client>>
         /\ \/ pc' = pc /\ Listed'
            \/ /\ pc' = "wild" /\ UNCHANGED dirent
               /\ node \in {NULL, DEV} \/ call' .arg > nroot_nodes
<1> DEFINE n == deref(node)
           p == directory_callback(n, n.readdir)
           called == call' = [of |-> "readdir", arg |-> index, size |-> 0, result |-> 0]
<1>1. \/ no_callback(p) /\ called /\ UNCHANGED client
      \/ p = GARBAGE /\ called /\ wild
      \/ p = "initrd_readdir" /\ initrd_readdir(index)
  BY DEF readdir_fs
<1>2. Listed /\ UNCHANGED <<image, dirent>> => Listed'
  BY DEF Listed
<1>3. Listed
  BY DEF IInv
<1>4. ASSUME no_callback(p) /\ called /\ UNCHANGED client
      PROVE  /\ call' .of = "readdir" /\ UNCHANGED <<disk, client>>
             /\ pc' = pc /\ Listed'
  BY <1>2, <1>3, <1>4 DEF no_callback, disk
<1>5. CASE node = ROOT /\ ~ is_file(node) /\ n = directory_node("dev")
  <2>1. p = "initrd_readdir"
    BY <1>5 DEF directory_node, directory_callback, FS_DIRECTORY, FS_FILE
  <2>2. initrd_readdir(index)
    BY <1>1, <2>1, PointersAssumption DEF no_callback, unset
  <2>3. CASE /\ dirent' = [name |-> "dev", ino |-> 0]
             /\ call' = [of |-> "readdir", arg |-> index, size |-> 0, result |-> 1]
             /\ UNCHANGED <<pc, disk, client>>
    BY <2>3 DEF Listed
  <2>4. CASE /\ call' = [of |-> "readdir", arg |-> index, size |-> 0, result |-> 0]
             /\ UNCHANGED <<pc, disk, dirent, client>>
    BY <2>4, <1>2, <1>3 DEF disk
  <2>5. CASE /\ index # 0 /\ index <= nroot_nodes /\ dirent' = entry(index)
             /\ call' = [of |-> "readdir", arg |-> index, size |-> 0, result |-> 1]
             /\ UNCHANGED <<pc, disk, client>>
    <3>1. nroot_nodes = Len(image) /\ Len(image) \in Nat
      BY NodeCount, ImageFacts
    <3>2. index \in 1 .. Len(image)
      BY <2>5, <3>1, FileSystemAssumption
    <3>3. root_nodes[index] = file_node(index - 1, image[index])
      BY <3>2 DEF IInv, Nodes
    <3>4. dirent' = [name |-> image[index].name, ino |-> index - 1]
      BY <2>5, <3>3 DEF entry, file_node
    <3>5. image' = image
      BY <2>5 DEF disk
    <3>6. Listed'
      BY <3>2, <3>4, <3>5 DEF Listed
    <3> QED
      BY <2>5, <3>6
  <2>6. CASE /\ dirent' = [name |-> GARBAGE, ino |-> GARBAGE]
             /\ call' = [of |-> "readdir", arg |-> index, size |-> 0, result |-> 1]
             /\ UNCHANGED <<pc, disk, client>>
    BY <2>6 DEF Listed
  <2>7. CASE /\ index > nroot_nodes /\ wild
             /\ call' = [of |-> "readdir", arg |-> index, size |-> 0, result |-> 1]
    BY <2>7 DEF wild
  <2> QED
    BY <2>2, <2>3, <2>4, <2>5, <2>6, <2>7 DEF initrd_readdir
<1>6. CASE node \in {NULL, DEV} /\ ~ is_file(node) /\ n = garbage_node
  <2>1. p \in {"0", GARBAGE}
    BY <1>6 DEF garbage_node, directory_callback, unset
  <2>2. p # "initrd_readdir"
    BY <2>1, PointersAssumption
  <2>3. CASE called /\ wild
    BY <1>6, <2>3 DEF wild
  <2> QED
    BY <1>1, <1>4, <2>2, <2>3
<1>7. CASE First(node) /\ is_file(node) /\ n = file_node(node - 1, image[node])
  <2>1. p = "0"
    BY <1>7 DEF file_node, directory_callback, FS_FILE, unset
  <2> QED
    BY <1>1, <1>4, <2>1, PointersAssumption
<1> QED
  BY <1>5, <1>6, <1>7, NodeKinds

\* write, open and close do nothing, except through a node that nothing has
\* set.
LEMMA CallbackEffect ==
  ASSUME IInv, mounts # 0, NEW op \in {"write", "open", "close"}, callback_fs(op)
  PROVE  /\ call' .of = op /\ UNCHANGED <<disk, dirent, client>>
         /\ pc' = pc \/ (pc' = "wild" /\ node \in {NULL, DEV})
<1> DEFINE p == deref(node)[op]
<1>1. /\ \/ no_callback(p) /\ UNCHANGED client
         \/ p = GARBAGE /\ wild
      /\ call' = [of |-> op, arg |-> 0, size |-> 0, result |-> 0]
  BY DEF callback_fs
<1>2. call' .of = op
  BY <1>1
<1>3. CASE no_callback(p) /\ UNCHANGED client
  BY <1>2, <1>3 DEF no_callback
<1>4. CASE p = GARBAGE /\ wild
  <2>1. CASE node = ROOT /\ deref(node) = directory_node("dev")
    <3>1. p = "0"
      BY <2>1 DEF directory_node, unset
    <3> QED
      BY <1>4, <3>1, PointersAssumption
  <2>2. CASE deref(node) = file_node(node - 1, image[node])
    <3>1. p = "0"
      BY <2>2 DEF file_node, unset
    <3> QED
      BY <1>4, <3>1, PointersAssumption
  <2>3. CASE node \in {NULL, DEV}
    BY <1>2, <1>4, <2>3 DEF wild
  <2> QED
    BY <2>1, <2>2, <2>3, NodeKinds
<1> QED
  BY <1>1, <1>3, <1>4

\* finddir in the root gives the client what initrd_finddir finds, in a file
\* NULL.
LEMMA FinddirEffect ==
  ASSUME IInv, mounts # 0, NEW name \in Names, finddir_fs(name)
  PROVE  /\ call' .of = "finddir" /\ UNCHANGED <<disk, dirent>>
         /\ \/ pc' = pc /\ holds(NULL)
            \/ pc' = pc /\ holds(initrd_finddir(name))
            \/ pc' = "wild" /\ node \in {NULL, DEV} /\ UNCHANGED client
<1> DEFINE n == deref(node)
           p == directory_callback(n, n.finddir)
<1>1. /\ \/ no_callback(p) /\ holds(NULL)
         \/ p = GARBAGE /\ wild
         \/ /\ p = "initrd_finddir"
            /\ holds(initrd_finddir(name))
            /\ UNCHANGED <<pc, disk, dirent>>
      /\ call' = [of |-> "finddir", arg |-> 0, size |-> 0, result |-> 0]
  BY DEF finddir_fs
<1>2. call' .of = "finddir"
  BY <1>1
<1>3. CASE no_callback(p) /\ holds(NULL)
  BY <1>2, <1>3 DEF no_callback
<1>4. CASE p = GARBAGE /\ wild
  <2>1. CASE node = ROOT /\ n = directory_node("dev")
    <3>1. p \in {"0", "initrd_finddir"}
      BY <2>1 DEF directory_node, directory_callback, unset
    <3> QED
      BY <1>4, <3>1, PointersAssumption
  <2>2. CASE n = file_node(node - 1, image[node])
    <3>1. p = "0"
      BY <2>2 DEF file_node, directory_callback, FS_FILE, unset
    <3> QED
      BY <1>4, <3>1, PointersAssumption
  <2>3. CASE node \in {NULL, DEV}
    BY <1>2, <1>4, <2>3 DEF wild
  <2> QED
    BY <2>1, <2>2, <2>3, NodeKinds
<1>5. CASE holds(initrd_finddir(name)) /\ UNCHANGED <<pc, disk, dirent>>
  BY <1>2, <1>5
<1> QED
  BY <1>1, <1>3, <1>4, <1>5

-----------------------------------------------------------------------------
\* Only init_ramdisk changes the disk.
LEMMA DiskKept ==
  ASSUME IInv, mounts # 0, UNCHANGED disk, pc' \in {"ready", "wild"}
  PROVE  Phase' /\ Headers' /\ Nodes' /\ nroot_nodes' = nroot_nodes
         /\ \A i : First(i)' <=> First(i)
<1>1. UNCHANGED <<image, file_headers, initrd_root, root_nodes, mounts>>
  BY DEF disk
<1>2. Phase'
  BY <1>1 DEF IInv, Phase
<1>3. Headers'
  BY <1>1 DEF IInv, Headers
<1>4. Nodes'
  BY <1>1 DEF IInv, Nodes
<1> QED
  BY <1>1, <1>2, <1>3, <1>4 DEF First, nroot_nodes

\* A client that starts anew has copied nothing.
LEMMA FreshDelivered ==
  ASSUME copied' = << >>, pos' \in Byte
  PROVE  Delivered'
BY DEF Delivered

LEMMA DeliveredKept ==
  ASSUME IInv, UNCHANGED <<image, mounts, client>>,
         call' = call \/ call' .of # "read"
  PROVE  Delivered'
<1>1. UNCHANGED <<image, mounts, node, pos, copied>>
  BY DEF client
<1>2. Delivered
  BY DEF IInv
<1> QED
  BY <1>1, <1>2 DEF Delivered, is_file

\* init_ramdisk turns offsets into addresses, once per call.
LEMMA MountStep ==
  ASSUME IInv, init_ramdisk
  PROVE  IInv'
<1>1. /\ pc' = "ready" /\ mounts' = mounts + 1 /\ mounts < 2
      /\ file_headers' = offsets_added(file_headers)
      /\ initrd_root' = directory_node("dev")
      /\ root_nodes' = [i \in 1 .. Len(image) |-> file_node(i - 1, file_headers[i])]
      /\ node' = ROOT /\ pos' = 0 /\ copied' = << >>
      /\ image' = image /\ dirent' = dirent
  BY DEF init_ramdisk
<1>2. mounts \in 0 .. 2 /\ image \in images
  BY DEF IInv, Phase
<1>3. mounts' \in 1 .. 2
  BY <1>1, <1>2
<1>4. Phase'
  BY <1>1, <1>2, <1>3 DEF Phase
<1>5. Headers'
  <2>1. /\ file_headers \in Seq(Header) /\ Len(file_headers) = Len(image)
        /\ \A i \in 1 .. Len(image) :
             /\ file_headers[i].name = image[i].name
             /\ file_headers[i].length = image[i].length
             /\ mounts = 0 => file_headers[i].offset = image[i].offset
    BY DEF IInv, Headers
  <2>2. file_headers' = [i \in 1 .. Len(file_headers) |->
          [file_headers[i] EXCEPT !.offset = (@ + location) % W]]
    BY <1>1 DEF offsets_added
  <2>3. W \in Nat /\ W > 0 /\ location \in Nat /\ Len(image) \in Nat
    BY ImageFacts, FileSystemAssumption
  <2>4. ASSUME NEW i \in 1 .. Len(image)
        PROVE  /\ file_headers'[i] \in Header
               /\ file_headers'[i].name = image[i].name
               /\ file_headers'[i].length = image[i].length
               /\ file_headers'[i].offset \in Byte
               /\ mounts = 0 => file_headers'[i].offset = location + image[i].offset
    <3>1. file_headers[i] \in Header
      BY <2>1
    <3>2. file_headers'[i] = [file_headers[i] EXCEPT
                                !.offset = (file_headers[i].offset + location) % W]
      BY <2>1, <2>2
    <3> DEFINE sum == (file_headers[i].offset + location) % W
    <3>3. file_headers[i].offset \in Nat
      BY <3>1 DEF Header
    <3>4. sum \in Nat /\ sum \in Byte
      BY <2>3, <3>3 DEF Byte
    <3>5. ASSUME mounts = 0 PROVE sum = location + image[i].offset
      <4>1. file_headers[i].offset = image[i].offset
        BY <2>1, <3>5
      <4>2. image[i].offset \in Nat /\ image[i].length \in Nat
            /\ location + image[i].offset + image[i].length < W
        BY ImageFacts
      <4>3. image[i].offset + location \in 0 .. W - 1
        BY <2>3, <4>2
      <4>4. (image[i].offset + location) % W = image[i].offset + location
        BY <2>3, <4>3, ModSmall
      <4> QED
        BY <2>3, <4>1, <4>2, <4>4
    <3> HIDE DEF sum
    <3>6. file_headers'[i] = [file_headers[i] EXCEPT !.offset = sum]
      BY <3>2 DEF sum
    <3> QED
      BY <2>1, <3>1, <3>4, <3>5, <3>6 DEF Header
  <2>5. file_headers' \in Seq(Header) /\ Len(file_headers') = Len(image)
    <3> DEFINE f == [i \in 1 .. Len(image) |-> file_headers'[i]]
    <3>1. file_headers' = f
      BY <2>1, <2>2
    <3>2. f \in [1 .. Len(image) -> Header]
      BY <2>4
    <3>3. f \in Seq(Header) /\ Len(f) = Len(image)
      BY <2>3, <3>2, LenProperties
    <3> QED
      BY <3>1, <3>3
  <2> QED
    BY <1>1, <1>2, <2>4, <2>5 DEF Headers
<1>6. Nodes'
  <2>1. \A i \in 1 .. Len(image) :
          file_node(i - 1, file_headers[i]) = file_node(i - 1, image[i])
    BY DEF IInv, Headers, file_node
  <2> QED
    BY <1>1, <2>1 DEF Nodes
<1>7. Held'
  BY <1>1 DEF Held
<1>8. Listed'
  BY <1>1 DEF IInv, Listed
<1>9. Delivered'
  <2>1. pos' \in Byte
    BY <1>1, FileSystemAssumption DEF Byte
  <2> QED
    BY <1>1, <2>1, FreshDelivered
<1>10. WildOnlyOutsideContract'
  BY <1>1 DEF WildOnlyOutsideContract
<1> QED
  BY <1>4, <1>5, <1>6, <1>7, <1>8, <1>9, <1>10 DEF IInv

\* memcpy copies consecutive bytes.
LEMMA CopiedBytes ==
  ASSUME W \in Nat, NEW src \in Nat, NEW n \in Nat, src + n <= W
  PROVE  /\ memcpy(src, n) \in Seq(Byte) /\ Len(memcpy(src, n)) = n
         /\ \A k \in 1 .. n : memcpy(src, n)[k] = src + k - 1
<1> DEFINE m == memcpy(src, n)
<1>1. \A k \in 1 .. n : src + k - 1 \in 0 .. W - 1 /\ (src + k - 1) % W = src + k - 1
  OBVIOUS
<1>2. m = [k \in 1 .. n |-> (src + k - 1) % W]
  BY DEF memcpy
<1>3. m = [k \in 1 .. n |-> src + k - 1]
  BY <1>1, <1>2
<1>4. m \in [1 .. n -> Byte]
  BY <1>1, <1>3 DEF Byte
<1>5. m \in Seq(Byte) /\ Len(m) = n
  BY <1>4
<1> QED
  BY <1>3, <1>5

\* A read goes on where the last one ended, and one that returns less than it
\* was asked for has reached the end of the file.
LEMMA ReadSomeDelivers ==
  ASSUME IInv, mounts # 0, NEW size \in Sizes, ReadSome(size)
  PROVE  /\ Delivered'
         /\ ReadCount(size) \in Nat
         /\ mounts = 1 =>
              memcpy((file_headers[node].offset + pos) % W, ReadCount(size))
              = [k \in 1 .. ReadCount(size) |-> location + image[node].offset + pos + k - 1]
<1> DEFINE length == image[node].length
           base == file_headers[node].offset
           count == ReadCount(size)
           new == memcpy((base + pos) % W, count)
           address == location + image[node].offset
<1>1. /\ node \in 1 .. Len(image)
      /\ length \in Nat /\ length < W /\ image[node].offset \in Nat
      /\ location \in Nat /\ W \in Nat /\ W > 0
      /\ address \in Nat /\ address + length < W
  BY ImageFacts, FileSystemAssumption DEF ReadSome, is_file, IInv, Held, First
<1>2. /\ copied \in Seq(Byte) /\ pos \in 0 .. W - 1
      /\ copied # << >> => Len(copied) <= pos
      /\ mounts = 1 => \A k \in 1 .. Len(copied) :
           copied[k] = address + pos - Len(copied) + k - 1
  BY DEF IInv, Delivered, Byte
<1>3. size \in Nat
  BY FileSystemAssumption, <1>1
<1> HIDE DEF new, length, address, base
<1>4. pos <= length /\ count = IF pos + size > length THEN length - pos ELSE size
  BY DEF ReadSome, ReadCount, length
<1> HIDE DEF count
<1>5. /\ copied' = copied \o new /\ pos' = pos + count /\ node' = node
      /\ image' = image /\ mounts' = mounts /\ is_file(node)
      /\ call' = [of |-> "read", arg |-> pos, size |-> size, result |-> count]
  BY DEF ReadSome, disk, new, count, base
<1>6. count \in Nat /\ pos + count <= length /\ (count < size => pos + count = length)
  BY <1>1, <1>2, <1>3, <1>4
<1>7. /\ new \in Seq(Byte) /\ Len(new) = count
      /\ mounts = 1 => new = [k \in 1 .. count |-> address + pos + k - 1]
  <2>1. CASE mounts = 1
    <3>1. base = address
      BY <1>1, <2>1 DEF IInv, Headers, base, address
    <3>3. (base + pos) % W = address + pos
      <4>1. address + pos \in 0 .. W - 1
        BY <1>1, <1>2, <1>4
      <4> QED
        BY <1>1, <3>1, <4>1, ModSmall
    <3>4. /\ address + pos \in Nat /\ address + pos + count <= W
      BY <1>1, <1>2, <1>6
    <3>5. /\ memcpy(address + pos, count) \in Seq(Byte)
          /\ Len(memcpy(address + pos, count)) = count
          /\ \A k \in 1 .. count : memcpy(address + pos, count)[k] = address + pos + k - 1
      BY <1>1, <1>6, <3>4, CopiedBytes
    <3>6. new = memcpy(address + pos, count)
      BY <3>3 DEF new
    <3>7. DOMAIN new = 1 .. count /\ new = [k \in DOMAIN new |-> new[k]]
      BY <3>6 DEF memcpy
    <3> QED
      BY <3>5, <3>6, <3>7
  <2>2. CASE mounts # 1
    <3> DEFINE src == (base + pos) % W
    <3>1. base \in Nat
      <4>1. file_headers \in Seq(Header) /\ node \in 1 .. Len(file_headers)
        BY <1>1 DEF IInv, Headers
      <4>2. file_headers[node] \in Header
        BY <4>1
      <4> QED
        BY <4>2 DEF Header, base
    <3>2. src \in Nat
      BY <1>1, <1>2, <3>1
    <3> HIDE DEF src
    <3>3. \A k \in 1 .. count : (src + k - 1) % W \in Byte
      BY <1>1, <1>6, <3>2 DEF Byte
    <3>4. memcpy(src, count) \in [1 .. count -> Byte]
      BY <3>3 DEF memcpy
    <3>5. new = memcpy(src, count)
      BY DEF src, new
    <3> QED
      BY <1>6, <2>2, <3>4, <3>5
  <2> QED
    BY <2>1, <2>2
<1>8. /\ copied' \in Seq(Byte) /\ Len(copied') = Len(copied) + count
      /\ \A i \in 1 .. Len(copied) + count :
           copied'[i] = IF i <= Len(copied) THEN copied[i] ELSE new[i - Len(copied)]
  BY <1>2, <1>5, <1>7, ConcatProperties
<1>9. Len(copied) \in Nat /\ Len(copied) <= pos
  BY <1>2
<1>10. pos' \in Byte
  <2>1. pos + count \in 0 .. W - 1
    BY <1>1, <1>2, <1>6
  <2> QED
    BY <1>5, <2>1 DEF Byte
<1>11. copied' # << >> => is_file(node)' /\ Len(copied)' <= pos' /\ pos' <= image'[node'].length
  BY <1>1, <1>2, <1>5, <1>6, <1>8, <1>9 DEF is_file, length
<1>12. ASSUME mounts = 1, NEW k \in 1 .. Len(copied')
       PROVE  copied'[k] = address + pos' - Len(copied') + k - 1
  <2>1. Len(copied') = Len(copied) + count
    BY <1>8
  <2>2. CASE k <= Len(copied)
    <3>1. copied'[k] = copied[k] /\ k \in 1 .. Len(copied)
      BY <1>6, <1>8, <1>9, <2>1, <2>2
    <3>2. copied[k] = address + pos - Len(copied) + k - 1
      BY <1>2, <1>12, <3>1
    <3>3. address \in Nat
      BY <1>1
    <3> QED
      BY <1>2, <1>5, <1>6, <1>9, <2>1, <3>1, <3>2, <3>3
  <2>3. CASE k > Len(copied)
    <3> DEFINE q == k - Len(copied)
    <3>1. q \in 1 .. count
      BY <1>6, <1>9, <2>1, <2>3
    <3>2. copied'[k] = new[q]
      BY <1>6, <1>8, <1>9, <2>1, <2>3
    <3>3. new[q] = address + pos + q - 1
      BY <1>7, <1>12, <3>1
    <3>4. address \in Nat
      BY <1>1
    <3>5. pos \in Nat /\ k \in Nat
      BY <1>2, <3>1
    <3> QED
      BY <1>5, <1>6, <1>9, <2>1, <3>1, <3>2, <3>3, <3>4, <3>5
  <2> QED
    BY <1>9, <2>2, <2>3
<1>13. call' .result < call' .size => pos' = image'[node'].length
  BY <1>5, <1>6 DEF length
<1>14. Delivered'
  BY <1>5, <1>8, <1>10, <1>11, <1>12, <1>13 DEF Delivered, address
<1> QED
  BY <1>6, <1>7, <1>14 DEF new, count, base, address

\* A step that leaves the disk and what the client holds alone.
LEMMA QuietStep ==
  ASSUME IInv, mounts # 0, UNCHANGED <<disk, client>>, Listed',
         call' = call \/ call' .of # "read",
         pc' \in {"ready", "wild"}, WildOnlyOutsideContract'
  PROVE  IInv'
<1>1. UNCHANGED <<image, mounts, node>>
  BY DEF disk, client
<1>2. Phase' /\ Headers' /\ Nodes' /\ \A i : First(i)' <=> First(i)
  BY DiskKept
<1>3. Held'
  BY <1>1, <1>2 DEF IInv, Held
<1>4. Delivered'
  BY <1>1, DeliveredKept
<1> QED
  BY <1>2, <1>3, <1>4 DEF IInv

\* A step after which the client holds a node and has read nothing of it.
LEMMA FreshStep ==
  ASSUME IInv, mounts # 0, UNCHANGED <<disk, dirent>>, pc' = "ready",
         copied' = << >>, pos' \in Byte,
         node' \in {NULL, ROOT, DEV} \/ First(node')
  PROVE  IInv'
<1>1. UNCHANGED <<image, mounts>>
  BY DEF disk
<1>2. Phase' /\ Headers' /\ Nodes' /\ \A i : First(i)' <=> First(i)
  BY DiskKept
<1>3. Held'
  BY <1>1 DEF Held, First
<1>4. Delivered'
  BY FreshDelivered
<1>5. Listed'
  BY <1>1 DEF IInv, Listed
<1>6. WildOnlyOutsideContract'
  BY DEF WildOnlyOutsideContract
<1> QED
  BY <1>2, <1>3, <1>4, <1>5, <1>6 DEF IInv

LEMMA ListedKept ==
  ASSUME IInv, UNCHANGED <<image, dirent>>
  PROVE  Listed'
BY DEF IInv, Listed

LEMMA ReadStep ==
  ASSUME IInv, mounts # 0, pc = "ready", NEW size \in Sizes, read_fs(size)
  PROVE  IInv'
<1>1. CASE ReadNothing(size)
  <2>1. /\ UNCHANGED <<pc, disk, dirent, client>> /\ call' .of = "read"
        /\ call' = [of |-> "read", arg |-> pos, size |-> size, result |-> 0]
        /\ UNCHANGED <<image, mounts, node, pos, copied>>
    BY <1>1 DEF ReadNothing, disk, client
  <2>2. Phase' /\ Headers' /\ Nodes' /\ \A i : First(i)' <=> First(i)
    BY <2>1, DiskKept
  <2>3. Held'
    BY <2>1, <2>2 DEF IInv, Held
  <2>4. copied = << >>
    <3>1. ASSUME copied # << >> PROVE FALSE
      <4>1. is_file(node) /\ pos <= image[node].length
        BY <3>1 DEF IInv, Delivered
      <4>2. pos > image[node].length
        BY <1>1, <4>1 DEF ReadNothing
      <4>3. pos \in Nat /\ image[node].length \in Nat
        <5>1. First(node)
          BY <4>1 DEF IInv, Held, is_file
        <5>2. pos \in 0 .. W - 1 /\ W \in Nat
          BY FileSystemAssumption DEF IInv, Delivered, Byte
        <5> QED
          BY <5>1, <5>2, ImageFacts DEF First
      <4> QED
        BY <4>1, <4>2, <4>3
    <3> QED
      BY <3>1
  <2>5. Delivered'
    BY <2>1, <2>4, FreshDelivered DEF IInv, Delivered
  <2>6. WildOnlyOutsideContract'
    BY <2>1 DEF WildOnlyOutsideContract
  <2>7. Listed'
    BY <2>1, ListedKept
  <2> QED
    BY <2>2, <2>3, <2>5, <2>6, <2>7 DEF IInv
<1>2. CASE ReadSome(size)
  <2>1. UNCHANGED <<pc, disk, dirent, node>> /\ UNCHANGED image
    BY <1>2 DEF ReadSome, disk
  <2>2. Phase' /\ Headers' /\ Nodes' /\ \A i : First(i)' <=> First(i)
    BY <2>1, DiskKept
  <2>3. Held'
    BY <2>1, <2>2 DEF IInv, Held
  <2>4. Delivered'
    BY <1>2, ReadSomeDelivers
  <2>5. WildOnlyOutsideContract'
    BY <2>1 DEF WildOnlyOutsideContract
  <2>6. Listed'
    BY <2>1, ListedKept
  <2> QED
    BY <2>2, <2>3, <2>4, <2>5, <2>6 DEF IInv
<1>3. CASE ReadWild(size)
  <2>1. /\ pc' = "wild" /\ UNCHANGED <<disk, dirent, client>>
        /\ UNCHANGED <<image, mounts, node, pos, copied>>
    BY <1>3 DEF ReadWild, wild, disk, client
  <2>2. Phase' /\ Headers' /\ Nodes' /\ \A i : First(i)' <=> First(i)
    BY <2>1, DiskKept
  <2>3. Held'
    BY <2>1, <2>2 DEF IInv, Held
  <2>4. WildOnlyOutsideContract'
    BY <1>3, <2>1 DEF WildOnlyOutsideContract, ReadWild
  <2>5. Listed'
    BY <2>1, ListedKept
  <2>6. /\ pos \in Byte /\ copied \in Seq(Byte)
        /\ copied # << >> => is_file(node) /\ Len(copied) <= pos /\ pos <= image[node].length
        /\ mounts = 1 => \A k \in 1 .. Len(copied) :
             copied[k] = location + image[node].offset + pos - Len(copied) + k - 1
    BY DEF IInv, Delivered
  <2>7. copied # << >> => ~ (call' .result < call' .size)
    <3>1. call' .size \in Nat
      BY <1>3, FileSystemAssumption DEF ReadWild
    <3> QED
      BY <1>3, <2>6, <3>1 DEF ReadWild
  <2>8. Delivered'
    BY <2>1, <2>6, <2>7 DEF Delivered, is_file
  <2> QED
    BY <2>2, <2>3, <2>4, <2>5, <2>8 DEF IInv
<1> QED
  BY <1>1, <1>2, <1>3, ReadEffect

\* Every operation of fs.c and initrd.c preserves the invariant.
LEMMA StepPreserves == IInv /\ [Next]_vars => IInv'
<1> SUFFICES ASSUME IInv, [Next]_vars PROVE IInv'
  OBVIOUS
<1>1. pc = "ready" => mounts # 0
  BY DEF IInv, Phase
<1>2. W \in Nat /\ 0 \in Byte /\ \A p \in Offsets : p \in Byte
  BY FileSystemAssumption DEF Byte
<1>3. CASE init_ramdisk
  BY <1>3, MountStep
<1>4. CASE ToRoot
  BY <1>1, <1>2, <1>4, FreshStep DEF ToRoot, holds
<1>5. ASSUME NEW size \in Sizes, read_fs(size) PROVE IInv'
  BY <1>1, <1>5, ReadStep DEF read_fs
<1>6. ASSUME NEW offset \in Offsets, Seek(offset) PROVE IInv'
  <2>1. /\ pc = "ready" /\ pc' = "ready" /\ mounts # 0 /\ node' = node
        /\ pos' \in Byte /\ copied' = << >> /\ UNCHANGED <<disk, dirent>>
    BY <1>1, <1>2, <1>6 DEF Seek
  <2>2. node' \in {NULL, ROOT, DEV} \/ First(node')
    BY <2>1 DEF IInv, Held
  <2> QED
    BY <2>1, <2>2, FreshStep
<1>7. ASSUME NEW op \in {"write", "open", "close"}, callback_fs(op) PROVE IInv'
  <2>1. pc = "ready" /\ mounts # 0
    BY <1>1, <1>7 DEF callback_fs
  <2>2. /\ call' .of = op /\ UNCHANGED <<disk, dirent, client>>
        /\ pc' = pc \/ (pc' = "wild" /\ node \in {NULL, DEV})
    BY <1>7, <2>1, CallbackEffect
  <2>3. UNCHANGED <<image, node>> /\ Listed'
    BY <2>2, ListedKept DEF disk, client
  <2>4. WildOnlyOutsideContract'
    BY <2>1, <2>2, <2>3 DEF WildOnlyOutsideContract
  <2> QED
    BY <2>1, <2>2, <2>3, <2>4, QuietStep
<1>8. ASSUME NEW index \in Indices, readdir_fs(index) PROVE IInv'
  <2>1. pc = "ready" /\ mounts # 0
    BY <1>1, <1>8 DEF readdir_fs
  <2>2. /\ call' .of = "readdir" /\ UNCHANGED <<disk, client>>
        /\ \/ pc' = pc /\ Listed'
           \/ /\ pc' = "wild" /\ UNCHANGED dirent
              /\ node \in {NULL, DEV} \/ call' .arg > nroot_nodes
    BY <1>8, <2>1, ReaddirEffect
  <2>3. UNCHANGED <<image, node>> /\ nroot_nodes' = nroot_nodes
    BY <2>2 DEF disk, client, nroot_nodes
  <2>4. Listed'
    BY <2>2, <2>3, ListedKept
  <2>5. WildOnlyOutsideContract'
    BY <2>1, <2>2, <2>3 DEF WildOnlyOutsideContract
  <2>6. pc' \in {"ready", "wild"}
    BY <2>1, <2>2
  <2> QED
    BY <2>1, <2>2, <2>4, <2>5, <2>6, QuietStep
<1>9. ASSUME NEW name \in Names, finddir_fs(name) PROVE IInv'
  <2>1. pc = "ready" /\ mounts # 0
    BY <1>1, <1>9 DEF finddir_fs
  <2>2. /\ call' .of = "finddir" /\ UNCHANGED <<disk, dirent>>
        /\ \/ pc' = pc /\ holds(NULL)
           \/ pc' = pc /\ holds(initrd_finddir(name))
           \/ pc' = "wild" /\ node \in {NULL, DEV} /\ UNCHANGED client
    BY <1>9, <2>1, FinddirEffect
  <2>3. initrd_finddir(name) \in {NULL, DEV} \/ First(initrd_finddir(name))
    BY <2>1, FindResult
  <2>4. CASE pc' = pc /\ (holds(NULL) \/ holds(initrd_finddir(name)))
    <3>1. copied' = << >> /\ pos' \in Byte /\ pc' = "ready"
      BY <1>2, <2>1, <2>4 DEF holds
    <3>2. node' \in {NULL, ROOT, DEV} \/ First(node')
      BY <2>3, <2>4 DEF holds
    <3> QED
      BY <2>1, <2>2, <3>1, <3>2, FreshStep
  <2>5. CASE pc' = "wild" /\ node \in {NULL, DEV} /\ UNCHANGED client
    <3>1. UNCHANGED <<image, node>> /\ Listed'
      BY <2>2, <2>5, ListedKept DEF disk, client
    <3>2. WildOnlyOutsideContract'
      BY <2>5, <3>1 DEF WildOnlyOutsideContract
    <3> QED
      BY <2>1, <2>2, <2>5, <3>1, <3>2, QuietStep
  <2> QED
    BY <2>2, <2>4, <2>5
<1>10. CASE UNCHANGED vars
  <2>1. /\ UNCHANGED <<pc, dirent, call>>
        /\ UNCHANGED <<image, file_headers, initrd_root, root_nodes, mounts>>
        /\ UNCHANGED <<node, pos, copied>>
    BY <1>10 DEF vars, disk, client
  <2>2. Listed'
    BY <2>1, ListedKept
  <2>3. Phase' /\ Headers' /\ Nodes' /\ Held'
    BY <2>1 DEF IInv, Phase, Headers, Nodes, Held, First
  <2>4. Delivered' /\ WildOnlyOutsideContract'
    BY <2>1 DEF IInv, Delivered, WildOnlyOutsideContract, nroot_nodes, is_file
  <2> QED
    BY <2>2, <2>3, <2>4 DEF IInv
<1> QED
  BY <1>3, <1>4, <1>5, <1>6, <1>7, <1>8, <1>9, <1>10 DEF Next

-----------------------------------------------------------------------------
LEMMA Invariant == Spec => []IInv
<1>1. Init => IInv
  BY InitEstablishes
<1>2. IInv /\ [Next]_vars => IInv'
  BY StepPreserves
<1> QED
  BY <1>1, <1>2, PTL DEF Spec

\* Mounting twice spoils nothing but offsets; the one dirent that all clients
\* share always holds an entry that some index has; pointers from finddir and
\* init_ramdisk are nodes of the disk, and the bytes copied since the client
\* went to a place lie in its file in front of pos.
THEOREM TypeCorrect == Spec => []TypeOK
<1>1. IInv => TypeOK
  <2> SUFFICES ASSUME IInv PROVE TypeOK
    OBVIOUS
  <2>1. node \in {NULL, ROOT, DEV} \cup 1 .. nroot_nodes
    <3>1. CASE mounts = 0
      BY <3>1 DEF IInv, Phase
    <3>2. CASE mounts # 0
      BY <3>2, NodeCount DEF IInv, Held, First
    <3> QED
      BY <3>1, <3>2
  <2>2. pos \in 0 .. W - 1 /\ copied \in Seq(Byte)
    BY DEF IInv, Delivered, Byte
  <2>3. \A k \in 1 .. Len(copied) : copied[k] \in Byte
    BY <2>2
  <2>4. copied # << >>
        => is_file(node) /\ Len(copied) <= pos /\ pos <= image[node].length
    BY DEF IInv, Delivered
  <2>5. /\ Len(file_headers) = Len(image)
        /\ \A i \in 1 .. Len(image) :
             /\ file_headers[i].name = image[i].name
             /\ file_headers[i].length = image[i].length
             /\ file_headers[i].offset \in 0 .. W - 1
    BY DEF IInv, Headers, Byte
  <2>6. /\ nroot_nodes \in {0, Len(image)}
        /\ \A i \in 1 .. nroot_nodes :
             /\ root_nodes[i].inode = i - 1
             /\ root_nodes[i].length = file_headers[i].length
    <3>1. CASE mounts = 0
      <4>1. nroot_nodes = 0
        BY <3>1 DEF IInv, Phase, nroot_nodes
      <4> QED
        BY <4>1
    <3>2. CASE mounts # 0
      <4>1. nroot_nodes = Len(image)
        BY <3>2, NodeCount
      <4>2. ASSUME NEW i \in 1 .. Len(image)
            PROVE  /\ root_nodes[i].inode = i - 1
                   /\ root_nodes[i].length = image[i].length
        BY <3>2 DEF IInv, Nodes, file_node
      <4> QED
        BY <2>5, <4>1, <4>2
    <3> QED
      BY <3>1, <3>2
  <2>7. \/ dirent \in [name : {no_name, "dev"}, ino : {0}]
        \/ dirent = [name |-> GARBAGE, ino |-> GARBAGE]
        \/ \E i \in 1 .. Len(image) : dirent = [name |-> image[i].name, ino |-> i - 1]
    BY DEF IInv, Listed
  <2>8. pc \in {"boot", "ready", "wild"} /\ image \in images /\ mounts \in 0 .. 2
    BY DEF IInv, Phase
  <2> QED
    BY <2>1, <2>2, <2>3, <2>4, <2>5, <2>6, <2>7, <2>8 DEF TypeOK, Byte
<1> QED
  BY <1>1, Invariant, PTL

\* Calls through unset pointers and copies over foreign memory need a client
\* that uses NULL or /dev, a sum that wraps, or an entry behind the last.
THEOREM ContractSuffices == Spec => []WildOnlyOutsideContract
<1>1. IInv => WildOnlyOutsideContract
  BY DEF IInv
<1> QED
  BY <1>1, Invariant, PTL

\* A name that readdir lists leads finddir to the node with that inode number.
THEOREM ListedFound == Spec => []ListedIsFound
<1>1. IInv => ListedIsFound
  <2> DEFINE name == dirent.name
             p == initrd_finddir(name)
  <2> SUFFICES ASSUME IInv, pc = "ready", name \notin {no_name, "dev"},
                      NEW i \in 1 .. Len(image), headers_of(name) = {i}
               PROVE  is_file(p) /\ root_nodes[p].inode = dirent.ino
    BY DEF ListedIsFound
  <2>1. mounts # 0
    BY DEF IInv, Phase
  <2>2. p = i
    BY <2>1, FindResult
  <2>3. image[i].name = name /\ \A j \in 1 .. Len(image) : image[j].name = name => j = i
    BY DEF headers_of
  <2>4. name # GARBAGE
    BY <2>3, ImageFacts, PointersAssumption
  <2>5. PICK j \in 1 .. Len(image) : dirent = [name |-> image[j].name, ino |-> j - 1]
    BY <2>4 DEF IInv, Listed
  <2>6. j = i /\ dirent.ino = j - 1
    BY <2>3, <2>5
  <2>7. root_nodes[i].inode = i - 1
    BY <2>1 DEF IInv, Nodes, file_node
  <2>8. is_file(i)
    <3>1. i \in Nat
      OBVIOUS
    <3> QED
      BY <3>1, PointersAssumption DEF is_file
  <2> QED
    BY <2>2, <2>6, <2>7, <2>8
<1> QED
  BY <1>1, Invariant, PTL

\* A client that reads until it gets less than it asked for has the file from
\* where it started to the end, whatever the sizes of the pieces.
THEOREM ShortReadAtEnd == Spec => []ShortReadMeansEnd
<1>1. IInv => ShortReadMeansEnd
  <2> DEFINE file == contents(node)
             length == image[node].length
             base == location + image[node].offset
             start == pos - Len(copied) + 1
             rest == SubSeq(file, start, Len(file))
  <2> SUFFICES ASSUME IInv, call.of = "read", is_file(node), mounts = 1,
                      copied # << >>, call.result < call.size
               PROVE  copied = rest
    BY DEF ShortReadMeansEnd
  <2>1. node \in 1 .. Len(image)
    BY DEF IInv, Held, First, is_file
  <2>2. length \in Nat /\ base \in Nat /\ base + length < W /\ W \in Nat
    BY <2>1, ImageFacts
  <2>3. /\ pos = length /\ copied \in Seq(Byte) /\ Len(copied) <= pos
        /\ \A k \in 1 .. Len(copied) : copied[k] = base + pos - Len(copied) + k - 1
    BY DEF IInv, Delivered
  <2>4. file = [k \in 1 .. length |-> base + k - 1]
    BY DEF contents
  <2> HIDE DEF file, base, length
  <2>5. \A k \in 1 .. length : file[k] = base + k - 1 /\ file[k] \in Byte
    BY <2>2, <2>4 DEF Byte
  <2>6. Len(file) = length
    BY <2>2, <2>4
  <2>7. Len(copied) \in Nat /\ start \in 1 .. length + 1
    BY <2>2, <2>3
  <2> HIDE DEF start
  <2>8. /\ rest \in Seq(Byte) /\ Len(rest) = length - start + 1
        /\ \A k \in 1 .. length - start + 1 : rest[k] = file[start + k - 1]
    <3>1. \A k \in start .. length : file[k] \in Byte
      BY <2>5, <2>7
    <3>2. start \in Int /\ length \in Int
      BY <2>2, <2>7
    <3> QED
      BY <2>2, <2>6, <2>7, <3>1, <3>2, SubSeqProperties
  <2> HIDE DEF rest
  <2>9. Len(copied) = length - start + 1
    BY <2>2, <2>3, <2>7 DEF start
  <2>10. ASSUME NEW k \in 1 .. Len(copied) PROVE copied[k] = rest[k]
    <3>1. copied[k] = base + pos - Len(copied) + k - 1
      BY <2>3
    <3>2. rest[k] = file[start + k - 1] /\ start + k - 1 \in 1 .. length
      BY <2>2, <2>7, <2>8, <2>9
    <3>3. rest[k] = base + (start + k - 1) - 1
      BY <2>5, <3>2
    <3> QED
      BY <2>2, <2>3, <2>7, <2>9, <3>1, <3>3 DEF start
  <2> QED
    BY <2>3, <2>8, <2>9, <2>10, SeqEqual
<1> QED
  BY <1>1, Invariant, PTL

-----------------------------------------------------------------------------
\* A held file is the abstract file of its name.
LEMMA HeldFile ==
  ASSUME IInv, mounts # 0, NEW i, First(i)
  PROVE  /\ root_nodes[i].name = image[i].name
         /\ is_file(i)
         /\ image[i].name \in DOMAIN files
         /\ files[image[i].name] = contents(i)
<1> DEFINE name == image[i].name
           H == headers_of(name)
<1>1. i \in 1 .. Len(image) /\ name # "dev" /\ i \in Nat
  BY ImageFacts DEF First
<1>2. i \in H /\ H \subseteq Nat /\ \A j \in H : i <= j
  BY <1>1, ImageFacts DEF headers_of, First
<1>3. \A m \in H : (\A j \in H : m <= j) => m = i
  BY <1>2
<1> HIDE DEF H
<1>4. (CHOOSE m \in H : \A j \in H : m <= j) = i
  BY <1>2, <1>3
<1>5. name \in { image[k].name : k \in 1 .. Len(image) } \ {"dev"}
  BY <1>1
<1>6. name \in DOMAIN files /\ files[name] = contents(i)
  BY <1>4, <1>5 DEF files, H
<1>7. root_nodes[i].name = name
  BY <1>1 DEF IInv, Nodes, file_node
<1>8. is_file(i)
  BY <1>1, PointersAssumption DEF is_file
<1> QED
  BY <1>6, <1>7, <1>8

LEMMA CurKept ==
  ASSUME UNCHANGED <<node, root_nodes>>
  PROVE  ACur' = ACur
BY DEF ACur, is_file

LEMMA FilesKept ==
  ASSUME UNCHANGED <<image, mounts>>
  PROVE  AFiles' = AFiles
BY DEF AFiles, files, headers_of, contents

\* The bytes a read copies are those of the abstract file.
LEMMA ReadRefines ==
  ASSUME IInv, mounts = 1, NEW size \in Sizes, ReadSome(size)
  PROVE  LET file == files[ACur]
             end == IF pos + size > Len(file) THEN Len(file) ELSE pos + size
             got == SubSeq(file, pos + 1, end)
         IN /\ ACur # NULL
            /\ copied' = copied \o got
            /\ pos' = pos + Len(got)
<1> DEFINE file == contents(node)
           length == image[node].length
           base == location + image[node].offset
           end == IF pos + size > Len(file) THEN Len(file) ELSE pos + size
           got == SubSeq(file, pos + 1, end)
           count == ReadCount(size)
           new == memcpy((file_headers[node].offset + pos) % W, count)
<1>1. First(node) /\ node \in 1 .. Len(image) /\ is_file(node)
  BY DEF ReadSome, is_file, IInv, Held, First
<1>2. length \in Nat /\ base \in Nat /\ base + length < W /\ W \in Nat
  BY <1>1, ImageFacts
<1>3. files[ACur] = file /\ ACur # NULL
  <2>1. ACur = image[node].name
    BY <1>1, HeldFile DEF ACur
  <2>2. image[node].name # NULL
    BY <1>1, ImageFacts, PointersAssumption
  <2> QED
    BY <1>1, <2>1, <2>2, HeldFile
<1>4. file = [k \in 1 .. length |-> base + k - 1]
  BY DEF contents
<1>5. /\ count \in Nat /\ new = [k \in 1 .. count |-> base + pos + k - 1]
      /\ copied' = copied \o new /\ pos' = pos + count /\ pos <= length
  BY ReadSomeDelivers DEF ReadSome
<1>6. count = IF pos + size > length THEN length - pos ELSE size
  BY DEF ReadCount
<1>7. pos \in Nat /\ size \in Nat
  BY FileSystemAssumption, <1>2 DEF IInv, Delivered, Byte
<1> HIDE DEF file, length, base, count, new
<1>8. Len(file) = length /\ \A k \in 1 .. length : file[k] = base + k - 1 /\ file[k] \in Byte
  BY <1>2, <1>4 DEF Byte
<1>9. end = pos + count /\ end \in Nat /\ end <= length
  BY <1>2, <1>5, <1>6, <1>7, <1>8
<1> HIDE DEF end
<1>10. /\ got \in Seq(Byte) /\ Len(got) = count
       /\ \A k \in 1 .. count : got[k] = file[pos + k]
  <2>1. \A k \in pos + 1 .. end : file[k] \in Byte
    BY <1>7, <1>8, <1>9
  <2>2. pos + 1 \in Int /\ end \in Int
    BY <1>7, <1>9
  <2>3. /\ got \in Seq(Byte)
        /\ Len(got) = IF pos + 1 <= end THEN end - (pos + 1) + 1 ELSE 0
        /\ \A k \in 1 .. end - (pos + 1) + 1 : got[k] = file[(pos + 1) + k - 1]
    BY <2>1, <2>2, SubSeqProperties
  <2> HIDE DEF got
  <2>4. Len(got) = count /\ end - (pos + 1) + 1 = count
    BY <1>5, <1>7, <1>9, <2>3
  <2>5. \A k \in 1 .. count : (pos + 1) + k - 1 = pos + k
    BY <1>5, <1>7
  <2> QED
    BY <2>3, <2>4, <2>5
<1> HIDE DEF got
<1>11. new \in Seq(Byte) /\ Len(new) = count
  <2>1. \A k \in 1 .. count : base + pos + k - 1 \in Byte
    BY <1>2, <1>5, <1>7, <1>9 DEF Byte
  <2>2. new \in [1 .. count -> Byte]
    BY <1>5, <2>1
  <2> QED
    BY <1>5, <2>2
<1>12. \A k \in 1 .. count : got[k] = new[k]
  <2> SUFFICES ASSUME NEW k \in 1 .. count PROVE got[k] = new[k]
    OBVIOUS
  <2>1. pos + k \in 1 .. length
    BY <1>2, <1>5, <1>7, <1>9
  <2>2. got[k] = base + (pos + k) - 1
    BY <1>8, <1>10, <2>1
  <2>3. new[k] = base + pos + k - 1
    BY <1>5
  <2> QED
    BY <1>2, <1>5, <1>7, <2>2, <2>3
<1>13. got = new
  BY <1>10, <1>11, <1>12, SeqEqual
<1> QED
  BY <1>3, <1>5, <1>10, <1>13 DEF got, end

LEMMA StutterRefines ==
  ASSUME UNCHANGED <<pc, disk, client>>
  PROVE  UNCHANGED archive!vars
<1>1. UNCHANGED <<pc, image, root_nodes, mounts, node, pos, copied>>
  BY DEF disk, client
<1>2. ACur' = ACur /\ AFiles' = AFiles /\ ATrusted' = ATrusted
  BY <1>1, CurKept, FilesKept DEF ATrusted
<1> QED
  BY <1>1, <1>2 DEF archive!vars

LEMMA CloseRefines ==
  ASSUME IInv, ATrusted, UNCHANGED <<pc, disk>>, NEW p \in {NULL, ROOT, DEV}, holds(p)
  PROVE  archive!Close
<1>1. UNCHANGED <<pc, image, mounts>> /\ node' = p
  BY DEF disk, holds
<1>2. ACur' = NULL
  BY <1>1 DEF ACur, is_file
<1>3. AFiles' = AFiles /\ ATrusted' = ATrusted
  BY <1>1, FilesKept DEF ATrusted
<1> QED
  BY <1>2, <1>3 DEF archive!Close, holds

LEMMA OpenRefines ==
  ASSUME IInv, mounts # 0, ATrusted, UNCHANGED <<pc, disk>>, NEW name \in Names,
         holds(initrd_finddir(name))
  PROVE  archive!Open(name)
<1> DEFINE found == initrd_finddir(name)
<1>1. UNCHANGED <<pc, image, root_nodes, mounts>> /\ node' = found
  BY DEF disk, holds
<1>2. AFiles' = AFiles /\ ATrusted' = ATrusted /\ AFiles = files
  BY <1>1, FilesKept DEF ATrusted, AFiles
<1>3. DOMAIN files = { image[i].name : i \in 1 .. Len(image) } \ {"dev"}
  BY DEF files
<1>4. ACur' = IF name \in DOMAIN AFiles THEN name ELSE NULL
  <2>1. CASE name = "dev" /\ found = DEV
    BY <1>1, <1>2, <1>3, <2>1 DEF ACur, is_file
  <2>2. CASE name # "dev" /\ headers_of(name) = {} /\ found = NULL
    BY <1>1, <1>2, <1>3, <2>2 DEF ACur, is_file, headers_of
  <2>3. CASE First(found) /\ found \in headers_of(name)
    <3>1. image[found].name = name
      BY <2>3 DEF headers_of
    <3>2. /\ root_nodes[found].name = name /\ is_file(found)
          /\ name \in DOMAIN files
      BY <2>3, <3>1, HeldFile
    <3> QED
      BY <1>1, <1>2, <3>2 DEF ACur, is_file
  <2> QED
    BY <2>1, <2>2, <2>3, FindResult
<1> QED
  BY <1>2, <1>4 DEF archive!Open, holds

\* Every step of the file system is a step of the archive or changes nothing
\* in it.
LEMMA StepRefines ==
  ASSUME IInv, [Next]_vars
  PROVE  [archive!Next]_(archive!vars)
<1>1. pc = "ready" => mounts # 0
  BY DEF IInv, Phase
<1>2. mounts \in 0 .. 2
  BY DEF IInv, Phase
<1>3. CASE ~ ATrusted'
  <2>1. ATrusted' = FALSE
    BY <1>3 DEF ATrusted
  <2> QED
    BY <2>1 DEF archive!Next, archive!LeaveContract
<1>4. CASE UNCHANGED vars
  <2>1. UNCHANGED <<pc, disk, client>>
    BY <1>4 DEF vars
  <2> QED
    BY <2>1, StutterRefines
<1>5. CASE ATrusted' /\ init_ramdisk
  <2>1. /\ mounts' = mounts + 1 /\ pc # "wild" /\ image' = image /\ node' = ROOT
        /\ pos' = 0 /\ copied' = << >> /\ pc' = "ready"
    BY <1>5 DEF init_ramdisk
  <2>2. mounts = 0 /\ mounts' = 1
    BY <1>2, <1>5, <2>1 DEF ATrusted
  <2>3. AFiles = << >> /\ ACur' = NULL /\ ATrusted /\ ATrusted' = ATrusted
    BY <2>1, <2>2 DEF AFiles, ACur, ATrusted, is_file
  <2>4. UNCHANGED <<pos, copied>>
    BY <2>1, <2>2 DEF IInv, Phase
  <2> QED
    BY <2>3, <2>4 DEF archive!Next, archive!Mount
<1>6. ASSUME ATrusted', pc = "ready", UNCHANGED disk PROVE ATrusted
  BY <1>6 DEF ATrusted, disk
<1>7. CASE ATrusted' /\ ToRoot
  BY <1>6, <1>7, CloseRefines DEF ToRoot, archive!Next
<1>8. ASSUME ATrusted', NEW offset \in Offsets, Seek(offset)
      PROVE  archive!Next
  <2>1. /\ UNCHANGED <<pc, image, root_nodes, mounts, node>> /\ ATrusted
        /\ pos' = offset /\ copied' = << >>
    BY <1>6, <1>8 DEF Seek, disk
  <2>2. ACur' = ACur /\ AFiles' = AFiles /\ ATrusted' = ATrusted
    BY <2>1, CurKept, FilesKept DEF ATrusted
  <2>3. archive!Seek(offset)
    BY <2>1, <2>2 DEF archive!Seek
  <2> QED
    BY <2>3 DEF archive!Next
<1>9. ASSUME ATrusted', NEW size \in Sizes, read_fs(size)
      PROVE  [archive!Next]_(archive!vars)
  <2>1. pc = "ready" /\ mounts # 0
    BY <1>1, <1>9 DEF read_fs
  <2>2. CASE ReadNothing(size)
    <3>1. UNCHANGED <<pc, disk, client>>
      BY <2>2 DEF ReadNothing
    <3> QED
      BY <3>1, StutterRefines
  <2>3. CASE ReadSome(size)
    <3>1. UNCHANGED <<pc, disk, image, root_nodes, mounts, node>>
      BY <2>3 DEF ReadSome, disk
    <3>2. ATrusted /\ mounts = 1
      BY <1>2, <1>6, <1>9, <2>1, <3>1 DEF ATrusted
    <3>3. ACur' = ACur /\ AFiles' = AFiles /\ ATrusted' = ATrusted /\ AFiles = files
      BY <3>1, <3>2, CurKept, FilesKept DEF ATrusted, AFiles
    <3>4. archive!Read(size)
      BY <2>3, <3>2, <3>3, ReadRefines DEF archive!Read
    <3> QED
      BY <3>4 DEF archive!Next
  <2>4. CASE ReadWild(size)
    BY <1>9, <2>4 DEF ReadWild, wild, ATrusted
  <2> QED
    BY <1>9, <2>1, <2>2, <2>3, <2>4, ReadEffect
<1>10. ASSUME ATrusted', NEW op \in {"write", "open", "close"}, callback_fs(op)
       PROVE  UNCHANGED archive!vars
  <2>1. pc = "ready" /\ mounts # 0
    BY <1>1, <1>10 DEF callback_fs
  <2>2. UNCHANGED <<pc, disk, client>>
    BY <1>10, <2>1, CallbackEffect DEF ATrusted
  <2> QED
    BY <2>2, StutterRefines
<1>11. ASSUME ATrusted', NEW index \in Indices, readdir_fs(index)
       PROVE  UNCHANGED archive!vars
  <2>1. pc = "ready" /\ mounts # 0
    BY <1>1, <1>11 DEF readdir_fs
  <2>2. UNCHANGED <<pc, disk, client>>
    BY <1>11, <2>1, ReaddirEffect DEF ATrusted
  <2> QED
    BY <2>2, StutterRefines
<1>12. ASSUME ATrusted', NEW name \in Names, finddir_fs(name)
       PROVE  archive!Next
  <2>1. pc = "ready" /\ mounts # 0
    BY <1>1, <1>12 DEF finddir_fs
  <2>2. /\ UNCHANGED <<pc, disk>>
        /\ holds(NULL) \/ holds(initrd_finddir(name))
    BY <1>12, <2>1, FinddirEffect DEF ATrusted
  <2>3. ATrusted
    BY <1>6, <1>12, <2>1, <2>2
  <2>4. archive!Close \/ archive!Open(name)
    BY <2>1, <2>2, <2>3, CloseRefines, OpenRefines
  <2> QED
    BY <2>4 DEF archive!Next
<1> QED
  BY <1>3, <1>4, <1>5, <1>7, <1>8, <1>9, <1>10, <1>11, <1>12 DEF Next

\* A client that keeps to the contract cannot tell the ramdisk from an
\* archive: names stand for the first files of the image with those names,
\* and reads deliver their bytes in order.
THEOREM Refinement == Spec => ImplementsArchive
<1>1. Init => archive!Init
  <2> SUFFICES ASSUME Init PROVE archive!Init
    OBVIOUS
  <2>1. pc = "boot" /\ mounts = 0 /\ node = NULL /\ pos = 0 /\ copied = << >>
    BY DEF Init
  <2>2. AFiles = << >> /\ ACur = NULL /\ ATrusted = TRUE
    BY <2>1 DEF AFiles, ACur, ATrusted, is_file
  <2> QED
    BY <2>1, <2>2 DEF archive!Init
<1>2. IInv /\ [Next]_vars => [archive!Next]_(archive!vars)
  BY StepRefines
<1> QED
  BY <1>1, <1>2, Invariant, PTL DEF Spec, ImplementsArchive, archive!Spec
=============================================================================
