---------------------------- MODULE ChannelNames ----------------------------
(***************************************************************************)
(* The configuration text of the channels and the search for a channel by  *)
(* its name (queue_job/jobrunner/channels.py, class ChannelManager).       *)
(*                                                                         *)
(* A name is a sequence of parts, a text a sequence of entries, each with  *)
(* its name, its capacity if it has one and the keys after it.  Blanks,    *)
(* line breaks and values of keys have no effect here, but for the blanks  *)
(* of the first entry, which hide a capacity of 0 (tight is FALSE then).   *)
(***************************************************************************)
EXTENDS Integers, SequencesExt

CONSTANTS
  Part,        \* the parts of names
  RootPart,    \* "root"
  Unlimited    \* a channel without capacity; an entry without one

ASSUME NamesAssumption == RootPart \in Part /\ Unlimited \notin Nat

RootName == <<RootPart>>

\* The entries of a configuration text.  The bound: capacities are natural numbers;
\* the parser takes any integer, and a channel with a negative one never has room.
Entries == [name : Seq(Part), capacity : Nat \cup {Unlimited}, keys : Seq(STRING), tight : BOOLEAN]

-----------------------------------------------------------------------------
(* Names *)

\* get_channel_by_name: the root may be left out.
FullName(name) ==
  CASE name = <<>> -> RootName
    [] name # <<>> /\ Head(name) = RootPart -> name
    [] OTHER -> RootName \o name

\* The names on the path from the root to a channel.
PathTo(full) == {SubSeq(full, 1, n) : n \in 1 .. Len(full)}

Longest(names) == CHOOSE n \in names : \A o \in names : Len(o) <= Len(n)

\* The parent to start from: the nearest known one when the search falls back,
\* else the root.
Nearest(known, full) == Longest((PathTo(full) \cap known) \cup {RootName})

\* Mutant: the search goes down the name with its root.
SearchedWithRoot(known, full, fallback) ==
  IF full \in known THEN full
  ELSE (IF fallback THEN Nearest(known, full) ELSE RootName) \o full

\* get_channel_by_name: from the parent the search follows every part of the
\* name after the root, also those that led to that parent.
Searched(known, full, fallback) ==
  IF full \in known THEN full
  ELSE (IF fallback THEN Nearest(known, full) ELSE RootName) \o Tail(full)

\* The channels known after the search, with those it created on the way.
KnownAfter(known, full, fallback) ==
  known \cup PathTo(Searched(known, full, fallback))

-----------------------------------------------------------------------------
(* The configuration *)

\* parse_simple_config: an entry without a capacity has one of 1.
Parsed(entry) ==
  [name |-> FullName(entry.name),
   capacity |-> IF entry.capacity = Unlimited THEN 1 ELSE entry.capacity,
   sequential |-> "sequential" \in Range(entry.keys)]

\* ValueError of parse_simple_config: no name, or a key given twice; of
\* configure: a sequential channel with another capacity.
Refused(text) ==
  \E e \in Range(text) :
    \/ e.name = <<>>
    \/ ~IsInjective(<<"name", "capacity">> \o e.keys)
    \/ Parsed(e).sequential /\ Parsed(e).capacity # 1

\* simple_configure: the channels it creates.  Without the fallback a search
\* goes down from the root, whatever is known by then.
Configured(text) ==
  UNION {KnownAfter({RootName}, FullName(e.name), FALSE) : e \in Range(text)}

\* The last entry of a channel is the one that holds.  A root without an entry
\* has a capacity of 1, a parent that was created none.
CapacityOf(text, channel) ==
  LET given == {n \in DOMAIN text : FullName(text[n].name) = channel} IN
  IF given # {} THEN Parsed(text[CHOOSE n \in given : \A o \in given : o <= n]).capacity
  ELSE IF channel = RootName THEN 1 ELSE Unlimited

\* has_capacity tests "not self.capacity": 0 is no limit either.
LimitOf(text, channel) ==
  IF CapacityOf(text, channel) = 0 THEN Unlimited ELSE CapacityOf(text, channel)

\* _is_runner_enabled: the text does not start with "root:0".
Enabled(text) ==
  ~(Head(text).name = RootName /\ Head(text).capacity = 0 /\ Head(text).tight)
=============================================================================
