------------------------------- MODULE ArgParse -------------------------------
(***************************************************************************)
(* The configuration reader (src/src/argparse.c).  fgets cuts a file into  *)
(* pieces that fit its buffer, and each piece is looked at by itself:      *)
(*   kind   "comment" (begins with # or is empty), "property" (has an =),  *)
(*          or "text";                                                     *)
(*   end    whether the newline is in the piece;                           *)
(*   key, value   what stands before and after the first =, in a property. *)
(* A value is the sequence of its colon-separated fields.                  *)
(***************************************************************************)
EXTENDS Integers, Sequences

CONSTANTS
    Field,    \* texts without a colon, values are made of them
    Number,   \* Number[f]: what atoi makes of a value whose first field is f
    None      \* no value

ASSUME FieldAssumption == "myself" \in Field /\ \A f \in DOMAIN Number : Number[f] \in Int

Value == Seq(Field) \ {<<>>}

Piece ==
    [kind : {"comment", "text"}, end : BOOLEAN]
    \cup [kind : {"property"}, end : BOOLEAN, key : STRING, value : Value]

VARIABLES
    registered,   \* keys in callbacks and registered_pointers
    mem,          \* mem[k]: the variable registered for key k points to
    dead,         \* keys whose variable went away with its function's frame
    wild,         \* history: a value was stored through a pointer of dead
    open,         \* a file is open
    input         \* pieces of it that are not read yet

argparse == <<registered, mem, dead, wild, open, input>>

\* The keys of init and of telegram_init, with the types they are registered for.
Type(k) == CASE k = "target" -> "LST"
             [] k \in {"myname", "token"} -> "STR"
             [] k \in {"poll_interval", "err_interval", "user_id"} -> "INT"

Key == {"target", "myname", "token", "poll_interval", "err_interval", "user_id"}

\* What the variable of a key may hold.
Contents(k) == CASE Type(k) = "LST" -> Seq(Value) [] Type(k) = "STR" -> {None} \cup Value [] Type(k) = "INT" -> Int

\* Zeroed memory at the start of a process, before anything is registered.
Zeroed == [k \in Key |-> CASE Type(k) = "LST" -> <<>> [] Type(k) = "STR" -> None [] Type(k) = "INT" -> 0]

ArgInit ==
    /\ registered = {} /\ mem = Zeroed /\ dead = {} /\ wild = FALSE
    /\ open = FALSE /\ input = <<>>

-----------------------------------------------------------------------------
\* atoi: the number a value begins with, 0 if it begins with none.
atoi(v) == IF v[1] \in DOMAIN Number THEN Number[v[1]] ELSE 0

\* What the variable of a key holds after a value was stored into old.
Store(k, old, v) ==
    CASE Type(k) = "INT" -> atoi(v) [] Type(k) = "STR" -> v [] Type(k) = "LST" -> Append(old, v)

\* A store through a dangling pointer hits whatever is on the stack by now.
generic_callback(k, v) ==
    \/ k \notin dead /\ mem' = [mem EXCEPT ![k] = Store(k, @, v)] /\ UNCHANGED wild
    \/ k \in dead /\ wild' = TRUE /\ UNCHANGED mem

\* argparse_register_argument_* of keys K, with the defaults of the _def variants.
register_pointer(K, defaults) ==
    /\ registered' = registered \cup K
    /\ mem' = [k \in Key |-> IF k \in DOMAIN defaults THEN defaults[k] ELSE mem[k]]

-----------------------------------------------------------------------------
(* argparse_read_properties                                                 *)

\* If the file cannot be opened the registrations stay.
fopen(file) ==
    \/ file # None /\ open' = TRUE /\ input' = file
    \/ file = None /\ UNCHANGED <<open, input>>

\* Mutant: a piece without its newline is taken for a property.
Accepted_unterminated(p) == p.kind = "property" /\ p.key \in registered

Accepted(p) == p.kind = "property" /\ p.end /\ p.key \in registered

fgets ==
    /\ open /\ input # <<>>
    /\ input' = Tail(input)
    /\ LET p == Head(input)
       IN \/ Accepted(p) /\ generic_callback(p.key, p.value)
          \/ ~Accepted(p) /\ UNCHANGED <<mem, wild>>
    /\ UNCHANGED <<registered, dead, open>>

\* Mutant: the registrations are not dropped.
EndOfFile_keeps == open /\ input = <<>> /\ open' = FALSE /\ UNCHANGED <<registered, mem, dead, wild, input>>

EndOfFile ==
    /\ open /\ input = <<>>
    /\ open' = FALSE /\ registered' = {}
    /\ UNCHANGED <<mem, dead, wild, input>>

-----------------------------------------------------------------------------
(* The rules of the repository's README: a line is a comment, empty or      *)
(* <key>=<value>.                                                           *)

Begins(file, i) == i = 1 \/ file[i - 1].end

\* The lines that begin in the first n pieces of a file and give key k a value.
Lines(file, n, k) ==
    {i \in 1..n : Begins(file, i) /\ file[i].kind = "property" /\ file[i].key = k}

\* x lists the values of some lines, in the order of the file.
Listed(file, lines, x) ==
    \E at \in [1..Len(x) -> lines] :
        /\ \A i, j \in 1..Len(x) : i < j => at[i] < at[j]
        /\ \A l \in lines : \E j \in 1..Len(x) : at[j] = l
        /\ \A j \in 1..Len(x) : x[j] = file[at[j]].value

\* x is the value of the last of some lines, read the way k is.
LastGiven(file, lines, k, x) ==
    \E last \in lines :
        /\ \A l \in lines : l <= last
        /\ x = IF Type(k) = "INT" THEN atoi(file[last].value) ELSE file[last].value

\* x is what the variable of k should hold after the first n pieces of a file.
Documented(file, n, k, default, x) ==
    LET lines == Lines(file, n, k)
    IN IF Type(k) = "LST" THEN Listed(file, lines, x)
       ELSE LastGiven(file, lines, k, x) \/ (lines = {} /\ x = default)

\* The rules give no length, and the reader cannot follow them for lines that do
\* not fit.  In a regular file only comments are that long, and no end of one has
\* the form of a property for a key of K.
Regular(file, K) ==
    \A i \in 1..Len(file) :
        \/ file[i].end /\ Begins(file, i)
        \/ file[i].kind = "comment"
        \/ ~Begins(file, i) /\ ~(file[i].end /\ file[i].kind = "property" /\ file[i].key \in K)
=============================================================================
