----------------------------- MODULE PathNames -----------------------------
(***************************************************************************)
(* A file name on its way from a system call to a path: what the open      *)
(* programs of ncda-ebpf/src/main.rs keep of it, which records the parser  *)
(* of ncda/src/bpf.rs accepts, and how FdPathCache normalises, classifies  *)
(* and strips names.                                                       *)
(*                                                                         *)
(* A name is the sequence of its components, as split("/") yields them: an *)
(* absolute one begins with an empty component, and repeated or trailing   *)
(* slashes leave empty ones too.  Buffers are measured in components       *)
(* instead of bytes.                                                       *)
(***************************************************************************)
EXTENDS Integers, Sequences, SequencesExt

CONSTANTS
  MaxNameLen,       \* MAX_FNAME_LEN
  IgnoredNames,     \* first components such as pipe:[1]
  MemoryNames,      \* first components such as memfd:x
  NamespaceNames    \* of other links that are no paths, such as net:[1]

ASSUME PathNamesAssumption ==
  /\ MaxNameLen \in Nat
  /\ IgnoredNames \cap MemoryNames = {}
  /\ NamespaceNames \cap (IgnoredNames \cup MemoryNames \cup {"", ".", ".."}) = {}
  /\ {"", ".", ".."} \cap (IgnoredNames \cup MemoryNames) = {}

--------------------------------------------------------------------------------
\* From the system call to the record.

Nul == "NUL"

Shorter(m, n) == IF m <= n THEN m ELSE n

Cut(name, length) == SubSeq(name, 1, Shorter(Len(name), length))

\* A buffer of the CPU: what was written over what an earlier open left in it.
Overwritten(name, left) ==
  [i \in 1 .. MaxNameLen |->
     IF i <= Len(name) THEN name[i] ELSE IF i <= Len(left) THEN left[i] ELSE Nul]

\* enter_open: one component more than fits into a record tells a name that just
\* fits from one that is cut.  Reading the memory of the process may fail.
OpenArgs(name, readable, left) ==
  LET read == IF readable THEN Cut(name, MaxNameLen + 1) ELSE <<>>
  IN  [fname |-> Overwritten(read, left),
       length |-> Shorter(Len(read), MaxNameLen),
       flags |-> IF ~readable THEN {"read_failed"}
                 ELSE IF Len(read) > MaxNameLen THEN {"truncated"} ELSE {}]

\* An exit that sends the buffer as it is.
RecordWithLeftovers(args) == args

\* exit_open: nothing of an earlier name is sent.
OpenRecord(args) ==
  [args EXCEPT !.fname =
     [i \in 1 .. MaxNameLen |-> IF i <= args.length THEN args.fname[i] ELSE Nul]]

--------------------------------------------------------------------------------
\* From the record to a path.

KnownFlags == {"truncated", "read_failed"}

\* parse_open_event accepts a record.
Accepted(record) ==
  /\ record.length <= MaxNameLen
  /\ record.flags \subseteq KnownFlags
  /\ "read_failed" \in record.flags => record.length = 0
  /\ \A i \in 1 .. MaxNameLen : (record.fname[i] = Nul) <=> (i > record.length)

NameIn(record) == SubSeq(record.fname, 1, record.length)

IsAbsolute(name) == Len(name) > 1 /\ name[1] = ""

\* classify_pseudo_path: by the first component, with or without a slash before it.
Kind(name) ==
  LET first == IF name = <<>> THEN ""
               ELSE IF IsAbsolute(name) THEN name[2] ELSE name[1]
  IN  IF first \in IgnoredNames THEN "ignored"
      ELSE IF first \in MemoryNames THEN "memory"
      ELSE "ordinary"

\* A link of /proc is a path from the root, or the name of something else.
IsPath(link) == link = <<>> \/ link[1] \notin NamespaceNames

\* One component of a path, lexically.
Stepped(path, component) ==
  CASE component \in {"", "."} -> path
    [] component = ".." -> Cut(path, Len(path) - 1)
    [] OTHER -> Append(path, component)

\* normalize_relative_path: never above where it begins.
Normalize(name) == FoldLeft(Stepped, <<>>, name)

\* strip_container_root
StripRoot(root, path) ==
  IF IsPrefix(root, path) THEN SubSeq(path, Len(root) + 1, Len(path)) ELSE path

\* AppState::is_excluded
IsUnder(path, prefixes) == \E prefix \in prefixes : IsPrefix(prefix, path)
=============================================================================
