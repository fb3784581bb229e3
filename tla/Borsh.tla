-------------------------------- MODULE Borsh --------------------------------
(***************************************************************************)
(* The bytes programs and clients exchange: numbers with the low byte first, *)
(* a tag before an option, a length before a text or a list.  Both ends use  *)
(* libraries for it (borsh, and beet in the clients), so that what is here   *)
(* is their format; what the two ends put through it are the modules that    *)
(* extend this one.  A key or a fixed array is one byte, repeated.           *)
(***************************************************************************)
EXTENDS Integers, Sequences
LOCAL INSTANCE SequencesExt

\* The types.
Num(size) == [kind |-> "num", size |-> size]
U8 == Num(1)
U32 == Num(4)
U64 == Num(8)
Bool == [kind |-> "bool", size |-> 1]
Bytes(size) == [kind |-> "bytes", size |-> size]
Key == Bytes(32)
Text == [kind |-> "list", of |-> U8]
Vec(T) == [kind |-> "list", of |-> T]
Option(T) == [kind |-> "option", of |-> T]
Enum(variants) == [kind |-> "enum", variants |-> variants, size |-> 1]
Struct(fields) == [kind |-> "struct", fields |-> fields]

\* A number, low byte first; the numbers here stay below 2^24.
LE(n, size) == [i \in 1..size |-> IF i <= 3 THEN (n \div 256^(i - 1)) % 256 ELSE 0]

RECURSIVE Encode(_, _)
Encode(T, v) ==
  CASE T.kind = "num" -> LE(v, T.size)
    [] T.kind = "bool" -> IF v THEN <<1>> ELSE <<0>>
    [] T.kind = "bytes" -> [i \in 1..T.size |-> v]
    [] T.kind = "enum" -> <<(CHOOSE i \in DOMAIN T.variants : T.variants[i] = v) - 1>>
    [] T.kind = "option" -> IF v = <<>> THEN <<0>> ELSE <<1>> \o Encode(T.of, v[1])
    [] T.kind = "list" ->
         LE(Len(v), 4) \o FlattenSeq([i \in DOMAIN v |-> Encode(T.of, v[i])])
    [] T.kind = "struct" ->
         FlattenSeq([i \in DOMAIN T.fields |-> Encode(T.fields[i][2], v[T.fields[i][1]])])

\* A value read at a position and the position behind it; Unread past the end,
\* at a tag that means nothing, and for all that follows.
Unread == [at |-> 0, is |-> <<>>]
Number(bytes, at) == bytes[at] + 256 * bytes[at + 1]

RECURSIVE Decode(_, _, _)
Decode(T, bytes, at) ==
  LET fits(n) == at # 0 /\ at + n <= Len(bytes) + 1
      item(acc, type) ==
        LET x == Decode(type, bytes, acc.at)
        IN [at |-> x.at, is |-> Append(acc.is, x.is)]
      items(start, types) == FoldLeft(item, [at |-> start, is |-> <<>>], types)
  IN CASE T.kind = "struct" ->
            LET all == items(at, [i \in DOMAIN T.fields |-> T.fields[i][2]])
            IN IF all.at = 0 THEN Unread
               ELSE [at |-> all.at,
                     is |-> [f \in {T.fields[i][1] : i \in DOMAIN T.fields} |->
                              all.is[CHOOSE i \in DOMAIN T.fields : T.fields[i][1] = f]]]
       [] T.kind = "option" ->
            IF ~fits(1) \/ bytes[at] > 1 THEN Unread
            ELSE IF bytes[at] = 0 THEN [at |-> at + 1, is |-> <<>>]
            ELSE items(at + 1, <<T.of>>)
       [] T.kind = "list" ->
            IF ~fits(4) \/ bytes[at + 2] + bytes[at + 3] > 0 \/ Number(bytes, at) > Len(bytes)
            THEN Unread
            ELSE items(at + 4, [i \in 1..Number(bytes, at) |-> T.of])
       [] OTHER ->
            IF ~fits(T.size) THEN Unread
            ELSE CASE T.kind = "num" ->
                        [at |-> at + T.size,
                         is |-> bytes[at] + (IF T.size > 1 THEN 256 * bytes[at + 1] ELSE 0)]
                   [] T.kind = "bytes" -> [at |-> at + T.size, is |-> bytes[at]]
                   [] T.kind = "bool" ->
                        IF bytes[at] > 1 THEN Unread ELSE [at |-> at + 1, is |-> bytes[at] = 1]
                   [] T.kind = "enum" ->
                        IF bytes[at] >= Len(T.variants) THEN Unread
                        ELSE [at |-> at + 1, is |-> T.variants[bytes[at] + 1]]

-----------------------------------------------------------------------------
\* An account in the list of an instruction: written or only read, signing or
\* not.  An optional one that is not given is replaced by the id of the program
\* and a program by its well-known id.
Program == "the program"
Account(name, writable, signer) ==
  [name |-> name, writable |-> writable, signer |-> signer, optional |-> FALSE]
R(name) == Account(name, FALSE, FALSE)
W(name) == Account(name, TRUE, FALSE)
S(name) == Account(name, FALSE, TRUE)
WS(name) == Account(name, TRUE, TRUE)
P(name) == R(name)
Opt(name) == [R(name) EXCEPT !.optional = TRUE]
OptW(name) == [W(name) EXCEPT !.optional = TRUE]

Call(list, args) == [accounts |-> list, args |-> Struct(args)]
Handler(list, args) == [accounts |-> list, args |-> Struct(args)]
FirstCode == 6000
ErrorCodes(names) == [code \in FirstCode..(FirstCode + Len(names) - 1) |-> names[code - FirstCode + 1]]
=============================================================================
