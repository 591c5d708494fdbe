---------------------------- MODULE BatchRequest ----------------------------
(***************************************************************************)
(* POST /decompile/batch of the web server, from the bytes of an MDB1 body *)
(* (or the entries of a JSON one) to the answer: the header checks, the    *)
(* loop over the entries with its bounds, the entries that fail on their   *)
(* own, and the results woven back in the order of the request.            *)
(*                                                                         *)
(* A length takes Word bytes, least significant first.  The fields of the  *)
(* header that are only compared are record fields of their own, the entry *)
(* bytes are a sequence.                                                   *)
(***************************************************************************)
EXTENDS Naturals, Sequences, FiniteSets

CONSTANTS
    Base,           \* values of a byte
    Word,           \* bytes of a length (4)
    MaxEntries,     \* MAX_ENTRIES
    MaxName,        \* MAX_NAME_LEN
    MaxCode,        \* MAX_CODE_LEN
    Utf8(_),        \* whether a name is text
    Decompile(_, _, _), \* bytecode, name, options -> outcome
    Bodies          \* the bodies to parse

Byte == 0..Base - 1
NoName == <<>>
Failed == [ok |-> FALSE, source |-> <<>>]

VARIABLES
    body,       \* the request: [json, header, bytes] or [json, entries]
    pos,        \* cursor into body.bytes
    parsed,     \* ParsedItem, in order
    parsePhase, \* "header", "entries", "parsed", "answered", "bad request"
    answers     \* BatchResultItem, in order

requestVars == <<body, pos, parsed, parsePhase, answers>>

----------------------------------------------------------------------------
\* take, read_u32

TakeAt(from, n) == SubSeq(body.bytes, from + 1, from + n)

\* The number that a word is, from the most significant byte down.
Number(word) ==
    LET value[k \in 0..Word] == IF k = 0 THEN 0 ELSE value[k - 1] * Base + word[Word + 1 - k]
    IN  value[Word]

----------------------------------------------------------------------------
RequestInit ==
    /\ body \in Bodies
    /\ pos = 0
    /\ parsed = <<>>
    /\ parsePhase = "header"
    /\ answers = <<>>

Refuse ==
    /\ parsePhase' = "bad request"
    /\ UNCHANGED <<body, pos, parsed, answers>>

\* The header is whole, and says what this server speaks.
HeaderOK(header) ==
    /\ header.whole /\ header.magic /\ header.version = 1 /\ header.known /\ header.reserved = 0
    /\ header.count <= MaxEntries

Header ==
    /\ parsePhase = "header" /\ ~body.json
    /\ IF HeaderOK(body.header)
       THEN parsePhase' = "entries" /\ UNCHANGED <<body, pos, parsed, answers>>
       ELSE Refuse

\* One turn of the loop: both lengths are bounded before they are used, and
\* every piece must fit in what is left.
Piece(from, max) ==
    LET length == Number(TakeAt(from, Word))
    IN IF from + Word <= Len(body.bytes) /\ length <= max /\ from + Word + length <= Len(body.bytes)
       THEN [ok |-> TRUE, bytes |-> TakeAt(from + Word, length), end |-> from + Word + length]
       ELSE [ok |-> FALSE, bytes |-> <<>>, end |-> from]

\* A name that is not text is no name.
ParsedItem(name, code) == [ready |-> TRUE, code |-> code, name |-> IF Utf8(name) THEN name ELSE NoName]

Entry ==
    /\ parsePhase = "entries" /\ Len(parsed) < body.header.count
    /\ LET name == Piece(pos, MaxName)
           code == Piece(name.end, MaxCode)
       IN IF name.ok /\ code.ok
          THEN /\ parsed' = Append(parsed, ParsedItem(name.bytes, code.bytes))
               /\ pos' = code.end
               /\ UNCHANGED <<body, parsePhase, answers>>
          ELSE Refuse

\* A body ends with its last entry.
\* Mutant: what follows the last entry is ignored.
EndOfEntriesLoose ==
    /\ parsePhase = "entries" /\ Len(parsed) = body.header.count
    /\ parsePhase' = "parsed" /\ UNCHANGED <<body, pos, parsed, answers>>

EndOfEntries ==
    /\ parsePhase = "entries" /\ Len(parsed) = body.header.count
    /\ IF pos = Len(body.bytes)
       THEN parsePhase' = "parsed" /\ UNCHANGED <<body, pos, parsed, answers>>
       ELSE Refuse

\* parse_json_batch: bad base64 is the failure of one script.
Json ==
    /\ parsePhase = "header" /\ body.json
    /\ IF body.valid /\ Len(body.entries) <= MaxEntries
       THEN /\ parsed' = [k \in 1..Len(body.entries) |->
                  [ready |-> body.entries[k].base64, code |-> body.entries[k].code, name |-> body.entries[k].name]]
            /\ parsePhase' = "parsed"
            /\ UNCHANGED <<body, pos, answers>>
       ELSE Refuse

----------------------------------------------------------------------------
\* decompile_parsed_batch: the ready items go to the library as one list,
\* under the options of the first; its outcomes come back in that order, and
\* each goes to the slot its item came from.

ReadyUpTo(k) == {i \in 1..k : parsed[i].ready}
Rank(k) == Cardinality(ReadyUpTo(k))
Ready == [j \in 1..Rank(Len(parsed)) |-> CHOOSE k \in ReadyUpTo(Len(parsed)) : Rank(k) = j]
Outcomes == [j \in 1..Len(Ready) |-> Decompile(parsed[Ready[j]].code, parsed[Ready[j]].name, body.options)]

\* Mutant: outcomes are counted by items, not by ready ones.
SlotOfItem(k) == IF k <= Len(Ready) THEN k ELSE Len(Ready)

Slot(k) == CHOOSE j \in 1..Len(Ready) : Ready[j] = k

Weave ==
    /\ parsePhase = "parsed"
    /\ answers' = [k \in 1..Len(parsed) |->
          [index |-> k, outcome |-> IF parsed[k].ready THEN Outcomes[Slot(k)] ELSE Failed]]
    /\ parsePhase' = "answered"
    /\ UNCHANGED <<body, pos, parsed>>

RequestNext == Header \/ Entry \/ EndOfEntries \/ Json \/ Weave

RequestSpec == RequestInit /\ [][RequestNext]_requestVars

----------------------------------------------------------------------------
\* What a well-formed body is: entries within the limits, encoded end to end.

Strings(max) == UNION {[1..n -> Byte] : n \in 0..max}
Entries == [name : Strings(MaxName), code : Strings(MaxCode)]

\* The word for a number: what is left when one divides by Base again and
\* again, least significant byte first.
Digits(n) ==
    LET rest[k \in 0..Word] == IF k = 0 THEN n ELSE rest[k - 1] \div Base
    IN  [k \in 1..Word |-> rest[k - 1] % Base]

Encoded(entry) == Digits(Len(entry.name)) \o entry.name \o Digits(Len(entry.code)) \o entry.code

\* The bodies are requests, and the limits are lengths that a word can hold.
ASSUME RequestAssumption ==
    /\ Base \in Nat \ {0} /\ Word \in Nat \ {0} /\ MaxEntries \in Nat /\ MaxName \in Nat /\ MaxCode \in Nat
    /\ \A n \in 0..MaxName \cup 0..MaxCode : \E word \in [1..Word -> Byte] : Number(word) = n
    /\ \A b \in Bodies :
        /\ b.json \in BOOLEAN
        /\ b.json => b.entries \in Seq([base64 : BOOLEAN, code : Seq(Byte), name : Seq(Byte)])
        /\ ~b.json => b.bytes \in Seq(Byte) /\ b.header.count \in Nat

\* Where each entry of the body ends, if it is cut into as many as the header
\* counts and nothing is left over.
Cuts ==
    LET length == Len(body.bytes) count == body.header.count
    IN  {cut \in [0..count -> 0..length] : cut[0] = 0 /\ cut[count] = length}

\* The k-th piece of a cut is this entry.
Holds(cut, k, entry) == SubSeq(body.bytes, cut[k - 1] + 1, cut[k]) = Encoded(entry)

\* A body is answered exactly when it is the encoding of as many entries as
\* its header counts, all within the limits, and then for those entries: no
\* byte is read twice, skipped or left over.
ExactlyTheEncodings ==
    ~body.json =>
        /\ parsePhase = "bad request" =>
            \/ ~HeaderOK(body.header)
            \/ \A cut \in Cuts : \E k \in 1..body.header.count : \A entry \in Entries : ~Holds(cut, k, entry)
        /\ parsePhase \in {"parsed", "answered"} =>
            /\ HeaderOK(body.header) /\ Len(parsed) = body.header.count
            /\ \E cut \in Cuts : \A k \in 1..body.header.count : \E entry \in Entries :
                    Holds(cut, k, entry) /\ parsed[k] = ParsedItem(entry.name, entry.code)

\* The k-th result answers the k-th script, whichever scripts before it
\* failed on their own; a failed script takes no other one's place.
ResultsInOrder ==
    parsePhase = "answered" =>
        /\ Len(answers) = Len(parsed)
        /\ \A k \in 1..Len(parsed) :
            /\ answers[k].index = k
            /\ answers[k].outcome =
                IF parsed[k].ready THEN Decompile(parsed[k].code, parsed[k].name, body.options) ELSE Failed

=============================================================================
