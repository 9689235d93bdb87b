----------------------------- MODULE FsHandles ------------------------------
(***************************************************************************)
(* File and LittleFS: File objects of the sketch share FileHandle records  *)
(* by reference count, a handle owns one open littlefs file or directory,  *)
(* and closing it through one File closes it for all of them.  (FS.cpp,    *)
(* LittleFS.cpp, arduino_fs_io.c.)                                         *)
(*                                                                         *)
(* A name is a number, its place in the order in which the file system     *)
(* lists its one directory; contents are abstracted to their length.       *)
(* littlefs itself is external: any of its calls may fail.                 *)
(***************************************************************************)
EXTENDS Naturals, Integers, FiniteSets, FiniteSetsExt

CONSTANTS
  Slots,        \* File objects of the sketch
  Handles,      \* FileHandle records there is memory for
  Objects,      \* lfs_file_t and lfs_dir_t records there is memory for
  NameCount,    \* names of the directory are 1 .. NameCount
  Modes,        \* mode strings the sketch passes to open()
  MaxSize,      \* bound on the length of a file and on a position in it
  Null          \* no handle, no object

Names == 1 .. NameCount
Root == 0                      \* the path "/"
Absent == -2                   \* disk[n] of a name that does not exist
Directory == -1                \* disk[n] of a directory

VARIABLES
  ready,        \* LittleFSClass: ready_ and mounted_, which never differ
  initialized,  \* LittleFSClass: runtimeInitialized_
  files,        \* files[s]: handle_ of File object s
  heap,         \* heap[h]: FileHandle h, or Null when it is freed
  lfs,          \* lfs[o]: open littlefs file or directory o, or Null
  disk          \* disk[n]: what the flash holds under name n

vars == <<ready, initialized, files, heap, lfs, disk>>

Handle == [refCount : Nat, type : {"none", "file", "dir"}, writable : BOOLEAN,
           object : Objects \cup {Null}, dirPosition : Nat]

\* A directory is opened for reading, whatever the sketch asked for.
Object == [kind : {"file", "dir"}, name : Names \cup {Root}, mode : Modes \cup {"r"},
           pos : Nat, size : Nat, linked : BOOLEAN, dirty : BOOLEAN]

ASSUME FsAssumption ==
  /\ NameCount \in Nat \ {0} /\ MaxSize \in Nat \ {0}
  /\ Modes \subseteq {"r", "r+", "w", "a", "a+", "rw"}
  /\ Null \notin Handles \cup Objects \cup Handle \cup Object
  /\ IsFiniteSet(Slots) /\ IsFiniteSet(Handles)

TypeOK ==
  /\ ready \in BOOLEAN /\ initialized \in BOOLEAN
  /\ files \in [Slots -> Handles \cup {Null}]
  /\ heap \in [Handles -> Handle \cup {Null}]
  /\ lfs \in [Objects -> Object \cup {Null}]
  /\ disk \in [Names -> Absent .. MaxSize]

Init ==
  /\ ready = FALSE /\ initialized = FALSE
  /\ files = [s \in Slots |-> Null]
  /\ heap = [h \in Handles |-> Null]
  /\ lfs = [o \in Objects |-> Null]
  /\ disk \in [Names -> {Absent, Directory, 1}]

-----------------------------------------------------------------------------
(* Modes.  writable is read off the string, the flags come from a table    *)
(* that opens a string it does not know for reading only.                  *)

IsWritable(mode) == mode # "r"
\* Mutant of Flags: reading creates what is not there, as updating does.
FlagsCreating(mode) ==
  {"read", "create"} \cup (IF mode = "w" THEN {"write", "trunc"} ELSE {})
Flags(mode) ==
  CASE mode \in {"r", "rw"} -> {"read"}
    [] mode = "r+"          -> {"read", "write", "create"}
    [] mode = "w"           -> {"read", "write", "create", "trunc"}
    [] mode = "a"           -> {"write", "append", "create"}
    [] mode = "a+"          -> {"read", "write", "append", "create"}

(* The state that handles own, as one value that helpers pass on.          *)
Now == [heap |-> heap, lfs |-> lfs, disk |-> disk]
Becomes(st) == heap' = st.heap /\ lfs' = st.lfs /\ disk' = st.disk

(* littlefs stores at the close of a file what a truncation left undone.   *)
Stored(d, object) ==
  IF object.linked /\ object.dirty /\ object.kind = "file"
  THEN [d EXCEPT ![object.name] = object.size] ELSE d

CloseObject(st, o) ==
  [st EXCEPT !.lfs[o] = Null, !.disk = Stored(@, st.lfs[o])]

closeHandleResources(st, h) ==
  LET o == st.heap[h].object
      closed == IF o = Null THEN st ELSE CloseObject(st, o)
  IN  [closed EXCEPT !.heap[h].object = Null, !.heap[h].type = "none"]

retain(st, h) ==
  IF h = Null THEN st ELSE [st EXCEPT !.heap[h].refCount = @ + 1]

release(st, h) ==
  CASE h = Null -> st
    [] h # Null /\ st.heap[h].refCount > 1 ->
         [st EXCEPT !.heap[h].refCount = @ - 1]
    [] OTHER -> [closeHandleResources(st, h) EXCEPT !.heap[h] = Null]

\* Mutant of AssignTemporary: the File on the left keeps what it held.
AssignOver(st, s, h) == release(retain(st, h), h)

(* s = <temporary>: the File on the left lets go first, and the temporary  *)
(* goes out of scope after the assignment.                                 *)
AssignTemporary(st, s, h) ==
  release(retain(release(st, files[s]), h), h)

-----------------------------------------------------------------------------
(* Opening: st is the state with handle h on object o in it.               *)

FreeIn(f) == {x \in DOMAIN f : f[x] = Null}
Placed(st, h, o, handle, object) ==
  [st EXCEPT !.heap[h] = handle, !.lfs[o] = object]

openDirectoryHandle(st, n, h, o) ==
  Placed(st, h, o,
    [refCount |-> 1, type |-> "dir", writable |-> FALSE, object |-> o,
     dirPosition |-> 0],
    [kind |-> "dir", name |-> n, mode |-> "r", pos |-> 0, size |-> 0,
     linked |-> TRUE, dirty |-> FALSE])

openFileHandle(st, n, mode, h, o) ==
  LET flags == Flags(mode)
      old == IF st.disk[n] = Absent THEN 0 ELSE st.disk[n]
      new == IF "trunc" \in flags THEN 0 ELSE old
  IN  [Placed(st, h, o,
         [refCount |-> 1, type |-> "file", writable |-> IsWritable(mode),
          object |-> o, dirPosition |-> 0],
         [kind |-> "file", name |-> n, mode |-> mode, pos |-> 0, size |-> new,
          linked |-> TRUE, dirty |-> new # old])
       EXCEPT !.disk[n] = old]

(* What open() can lead to: pairs of the new handle and the state.  Every  *)
(* open may fail; a path ending in "/" that names no directory always does. *)
openHandleFromUserPath(st, n, mode) ==
  LET place == {<<CHOOSE h \in FreeIn(st.heap) : TRUE,
                  CHOOSE o \in FreeIn(st.lfs) : TRUE>> :
                   x \in IF FreeIn(st.heap) = {} \/ FreeIn(st.lfs) = {}
                         THEN {} ELSE {1}}
      isDir == n = Root \/ (n # Root /\ st.disk[n] = Directory)
      canOpen == isDir \/ st.disk[n] # Absent \/ "create" \in Flags(mode)
  IN  {[handle |-> Null, st |-> st]} \cup
      {[handle |-> p[1],
        st |-> IF isDir THEN openDirectoryHandle(st, n, p[1], p[2])
                        ELSE openFileHandle(st, n, mode, p[1], p[2])] :
          p \in IF canOpen THEN place ELSE {}}

open(s, n, mode) ==
  /\ \E r \in IF ready THEN openHandleFromUserPath(Now, n, mode)
                       ELSE {[handle |-> Null, st |-> Now]} :
       /\ Becomes(AssignTemporary(r.st, s, r.handle))
       /\ files' = [files EXCEPT ![s] = r.handle]
  /\ UNCHANGED <<ready, initialized>>

(* s = t, and File s(t) when s is empty.                                   *)
copy(s, t) ==
  /\ s # t
  /\ Becomes(retain(release(Now, files[s]), files[t]))
  /\ files' = [files EXCEPT ![s] = files[t]]
  /\ UNCHANGED <<ready, initialized>>

destroy(s) ==
  /\ files[s] # Null
  /\ Becomes(release(Now, files[s]))
  /\ files' = [files EXCEPT ![s] = Null]
  /\ UNCHANGED <<ready, initialized>>

close(s) ==
  /\ files[s] # Null
  /\ Becomes(closeHandleResources(Now, files[s]))
  /\ UNCHANGED <<ready, initialized, files>>

-----------------------------------------------------------------------------
(* Reading and writing through a handle.                                   *)

HasType(s, type) == files[s] # Null /\ heap[files[s]].type = type
ObjectOf(s) == heap[files[s]].object
IsFile(s) == HasType(s, "file") /\ ObjectOf(s) # Null
OnObject(s, object, d) ==
  /\ lfs' = [lfs EXCEPT ![ObjectOf(s)] = object]
  /\ disk' = d
  /\ UNCHANGED <<ready, initialized, files, heap>>

write(s, count) ==
  /\ IsFile(s) /\ heap[files[s]].writable
  /\ LET f == lfs[ObjectOf(s)]
         start == IF "append" \in Flags(f.mode) THEN f.size ELSE f.pos
         longer == [f EXCEPT !.pos = start + count, !.dirty = FALSE,
                             !.size = Max({@, start + count})]
     IN  /\ "write" \in Flags(f.mode)
         /\ start + count <= MaxSize
         /\ OnObject(s, longer,
              IF f.linked THEN [disk EXCEPT ![f.name] = longer.size] ELSE disk)

Advanced(f, count) ==
  IF "read" \in Flags(f.mode)
  THEN [f EXCEPT !.pos = Max({@, Min({f.size, @ + count})})] ELSE f

read(s, count) ==
  /\ IsFile(s)
  /\ OnObject(s, Advanced(lfs[ObjectOf(s)], count), disk)

(* peek() is position(), read() of one byte and, if there was one, seek()  *)
(* back.                                                                   *)
peek(s) ==
  /\ IsFile(s)
  /\ LET f == lfs[ObjectOf(s)]
     IN  OnObject(s, [Advanced(f, 1) EXCEPT !.pos = f.pos], disk)

(* Offsets are uint32_t that file_fseek takes for signed ones.             *)
seek(s, offset, from) ==
  /\ IsFile(s)
  /\ LET f == lfs[ObjectOf(s)]
         base == CASE from = "set" -> 0
                   [] from = "cur" -> f.pos
                   [] from = "end" -> f.size
     IN  /\ base + offset \in 0 .. MaxSize
         /\ OnObject(s, [f EXCEPT !.pos = base + offset], disk)

-----------------------------------------------------------------------------
(* Directories.  The cursor of a directory object is the last name it has  *)
(* listed; the one of a subdirectory has nothing to list.                  *)

IsOpenDir(s) == HasType(s, "dir") /\ ObjectOf(s) # Null
ListedBy(dir, d) ==
  IF dir.name = Root THEN {n \in Names : n > dir.pos /\ d[n] # Absent} ELSE {}

(* The next entry whose open succeeds: entries whose open fails are        *)
(* skipped, and any of them may fail.  to[s] is assigned the child.        *)
openNextFile(s, t, mode) ==
  /\ IsOpenDir(s)
  /\ LET h == files[s]
         o == ObjectOf(s)
         at(n) == [Now EXCEPT !.lfs[o].pos = n]
         counted(n) == [at(n) EXCEPT !.heap[h].dirPosition = @ + 1]
     IN  \/ \E n \in ListedBy(lfs[o], disk) :
              \E r \in openHandleFromUserPath(counted(n), n, mode) :
                 /\ r.handle # Null
                 /\ Becomes(AssignTemporary(r.st, t, r.handle))
                 /\ files' = [files EXCEPT ![t] = r.handle]
         \/ /\ Becomes(AssignTemporary(
                 at(Max({lfs[o].pos} \cup ListedBy(lfs[o], disk))), t, Null))
            /\ files' = [files EXCEPT ![t] = Null]
  /\ UNCHANGED <<ready, initialized>>

(* getNextFileName(): the child is closed before the call returns.         *)
getNextFileName(s) ==
  /\ IsOpenDir(s)
  /\ LET h == files[s]
         o == ObjectOf(s)
     IN  \/ \E n \in ListedBy(lfs[o], disk) :
              \E r \in openHandleFromUserPath(
                         [Now EXCEPT !.lfs[o].pos = n,
                                     !.heap[h].dirPosition = @ + 1], n, "r") :
                 /\ r.handle # Null
                 /\ Becomes(release(r.st, r.handle))
         \/ Becomes([Now EXCEPT !.lfs[o].pos =
                       Max({@} \cup ListedBy(lfs[o], disk))])
  /\ UNCHANGED <<ready, initialized, files>>

(* The directory is opened a second time before the old one is closed.     *)
reopenDirectory(st, h, o) ==
  [CloseObject([st EXCEPT !.lfs[o] = [st.lfs[st.heap[h].object] EXCEPT !.pos = 0]],
               st.heap[h].object)
   EXCEPT !.heap[h].object = o, !.heap[h].dirPosition = 0]

CanReopen(s) ==
  /\ IsOpenDir(s) /\ FreeIn(lfs) # {}
  /\ LET n == lfs[ObjectOf(s)].name IN n = Root \/ (n # Root /\ disk[n] = Directory)

rewindDirectory(s) ==
  /\ CanReopen(s)
  /\ Becomes(reopenDirectory(Now, files[s], CHOOSE o \in FreeIn(lfs) : TRUE))
  /\ UNCHANGED <<ready, initialized, files>>

(* Children that fail to open are not counted; when there are too few the  *)
(* directory is left where the listing ended.                              *)
seekDir(s, position) ==
  /\ CanReopen(s)
  /\ LET h == files[s]
         o == CHOOSE x \in FreeIn(lfs) : TRUE
         first == reopenDirectory(Now, h, o)
     IN  \E opened \in SUBSET ListedBy(first.lfs[o], disk) :
           LET landed(n, p) == [first EXCEPT !.lfs[o].pos = n,
                                             !.heap[h].dirPosition = p]
           IN  IF Cardinality(opened) = position
               THEN Becomes(landed(Max(opened \cup {0}), position))
               ELSE /\ Cardinality(opened) < position
                    /\ Becomes(landed(Max(ListedBy(first.lfs[o], disk) \cup {0}),
                                      Cardinality(opened)))
  /\ UNCHANGED <<ready, initialized, files>>

-----------------------------------------------------------------------------
(* Paths.  A file whose entry goes away while it is open is orphaned.      *)

Orphan(names) ==
  [o \in Objects |-> IF lfs[o] # Null /\ lfs[o].name \in names
                     THEN [lfs[o] EXCEPT !.linked = FALSE] ELSE lfs[o]]
PathOp(d, names) ==
  /\ ready
  /\ disk' = d /\ lfs' = Orphan(names)
  /\ UNCHANGED <<ready, initialized, files, heap>>

(* remove() and rmdir() are one call below.                                *)
remove(n) == disk[n] # Absent /\ PathOp([disk EXCEPT ![n] = Absent], {n})

rename(n, to) ==
  /\ disk[n] # Absent
  /\ disk[to] = Absent \/ ((disk[to] = Directory) <=> (disk[n] = Directory))
  /\ n # to
  /\ PathOp([disk EXCEPT ![n] = Absent, ![to] = disk[n]], {n, to})

mkdir(n) == disk[n] = Absent /\ PathOp([disk EXCEPT ![n] = Directory], {})

Erased ==
  /\ disk' = [n \in Names |-> Absent]
  /\ lfs' = Orphan(Names)
  /\ initialized' = TRUE

(* Nothing closes the files that are open; the format itself may fail.     *)
format ==
  /\ Erased \/ (initialized' = TRUE /\ UNCHANGED <<lfs, disk>>)
  /\ UNCHANGED <<ready, files, heap>>

(* Either LFS_init fails, or totalBytes() is positive, or it is not and    *)
(* the file system is formatted if the sketch asked for that.              *)
begin(formatOnFail) ==
  /\ \/ ~initialized /\ ready' = FALSE /\ UNCHANGED <<initialized, lfs, disk>>
     \/ ready' = TRUE /\ initialized' = TRUE /\ UNCHANGED <<lfs, disk>>
     \/ ready' = FALSE /\ initialized' = TRUE /\ UNCHANGED <<lfs, disk>>
     \/ formatOnFail /\ ready' \in BOOLEAN /\ Erased
  /\ UNCHANGED <<files, heap>>

end ==
  /\ ready' = FALSE
  /\ UNCHANGED <<initialized, files, heap, lfs, disk>>

-----------------------------------------------------------------------------
Next ==
  \/ \E s \in Slots, n \in Names \cup {Root}, mode \in Modes : open(s, n, mode)
  \/ \E s \in Slots, t \in Slots : copy(s, t)
  \/ \E s \in Slots : destroy(s)
  \/ \E s \in Slots : close(s)
  \/ \E s \in Slots, count \in 1 .. MaxSize : write(s, count)
  \/ \E s \in Slots, count \in 1 .. MaxSize : read(s, count)
  \/ \E s \in Slots : peek(s)
  \/ \E s \in Slots, offset \in -1 .. MaxSize, from \in {"set", "cur", "end"} :
        seek(s, offset, from)
  \/ \E s \in Slots, t \in Slots, mode \in Modes : openNextFile(s, t, mode)
  \/ \E s \in Slots : getNextFileName(s)
  \/ \E s \in Slots : rewindDirectory(s)
  \/ \E s \in Slots, position \in 0 .. NameCount : seekDir(s, position)
  \/ \E n \in Names : remove(n)
  \/ \E n \in Names, to \in Names : rename(n, to)
  \/ \E n \in Names : mkdir(n)
  \/ format
  \/ \E formatOnFail \in BOOLEAN : begin(formatOnFail)
  \/ end

Spec == Init /\ [][Next]_vars

-----------------------------------------------------------------------------
(* Copies, temporaries, assignments and closes leave every handle with the *)
(* count of the File objects that name it, no File names a freed handle    *)
(* (it would be used after delete), and every open littlefs object is held *)
(* by exactly one handle, so that none stays open for ever.                *)
HandlesCounted ==
  /\ \A s \in Slots : files[s] # Null => heap[files[s]] # Null
  /\ \A h \in Handles : heap[h] # Null =>
       /\ heap[h].refCount = Cardinality({s \in Slots : files[s] = h})
       /\ heap[h].refCount > 0
       /\ IF heap[h].object = Null THEN heap[h].type = "none"
          ELSE /\ lfs[heap[h].object] # Null
               /\ heap[h].type = lfs[heap[h].object].kind
  /\ \A o \in Objects : lfs[o] # Null =>
       Cardinality({h \in Handles : heap[h] # Null /\ heap[h].object = o}) = 1

(* However a listing, getNextFileName(), seekDir() and rewindDirectory()   *)
(* are mixed, through whichever copy of the File, and whatever is removed  *)
(* meanwhile, the directory position never counts more entries than the    *)
(* cursor of the directory has passed.                                     *)
DirPositionFollowsCursor ==
  \A h \in Handles : heap[h] # Null /\ heap[h].type = "dir" =>
    heap[h].dirPosition <= lfs[heap[h].object].pos

(* The handles are counted and their positions follow the cursors, and     *)
(* every variable has the values its declaration promises.                 *)
HandleInv == TypeOK /\ HandlesCounted /\ DirPositionFollowsCursor

(* What a sketch does to read (open for reading, list, seek, peek, mount)  *)
(* changes no file, except that the File it assigns to may have been the   *)
(* last one of a file that was truncated and not stored yet.               *)
Reading ==
  \/ \E s \in Slots, n \in Names \cup {Root} : open(s, n, "r")
  \/ \E s \in Slots, t \in Slots : openNextFile(s, t, "r")
  \/ \E s \in Slots : getNextFileName(s) \/ rewindDirectory(s) \/ peek(s)
  \/ \E s \in Slots, p \in 0 .. NameCount : seekDir(s, p)
  \/ \E s \in Slots, count \in 1 .. MaxSize : read(s, count)
  \/ begin(FALSE)

ReadingKeepsStorage ==
  [][Reading => \A n \in Names : disk'[n] # disk[n] =>
       \E o \in Objects : /\ lfs[o] # Null /\ lfs'[o] = Null
                          /\ lfs[o].name = n /\ lfs[o].dirty /\ lfs[o].linked]_vars
=============================================================================
