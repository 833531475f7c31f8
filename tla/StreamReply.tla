---------------------------- MODULE StreamReply ----------------------------
(***************************************************************************)
(* What an entry of a stream becomes when it is read (crates/bus/src:      *)
(* message.rs), against what publish writes (client.rs).  The fields of an *)
(* entry are one sequence, names and values in turn; an element is a text, *)
(* or "nil" for what is not one.  "doc" stands for the JSON texts.         *)
(***************************************************************************)
EXTENDS Text

(* The part of an event type before the first dot names the stream.        *)
stream_name(event_type) ==
  LET module == Split(event_type, ".")[1]
  IN IF module = <<>> THEN <<"system">> ELSE module

(* What XADD is given.                                                     *)
publish_fields(event_type, payload) ==
  <<"eventType", event_type, "payload", payload>>

(* Mutant of Pairs: the index moves by one.                                *)
Pairs_by_one(fields) ==
  [i \in 1..(Len(fields) - 1) |-> <<fields[i], fields[i + 1]>>]

(* Names with their values; one without a value is not looked at.          *)
Pairs(fields) ==
  [i \in 1..(Len(fields) \div 2) |-> <<fields[2 * i - 1], fields[2 * i]>>]

(* The last text under a name, or {} if there is none.                     *)
LastValue(fields, name) ==
  LET pairs == Pairs(fields)
      at == {i \in DOMAIN pairs : pairs[i][1] = name /\ pairs[i][2] # "nil"}
  IN IF at = {} THEN {} ELSE {pairs[Max(at)][2]}

(* The message, or {} for an entry that is skipped: the last payload must  *)
(* be JSON; the type is that of the entry, or the payload's.               *)
parse_entry(fields) ==
  LET types == LastValue(fields, "eventType")
      payloads == LastValue(fields, "payload") \cap {"doc"}
  IN {[event_type |-> type, payload |-> doc] :
        type \in IF types = {} THEN {"type of doc"} ELSE types,
        doc \in payloads}

=============================================================================
