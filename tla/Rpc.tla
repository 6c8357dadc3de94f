-------------------------------- MODULE Rpc --------------------------------
(***************************************************************************)
(* How the rpc proxy triages a request (proxy/rpc.go) after parsing it as a *)
(* single call or as a batch (jrpc/jrpc_call.go).  A JSON-RPC id is a       *)
(* number or a string; Go parses each into a type of its own.               *)
(***************************************************************************)
EXTENDS Naturals, SequencesExt

CONSTANT MaxBatch       \* bound of the model: calls in a batch

VARIABLES
    request,    \* the request received last
    verdict     \* what triage made of it

vars == <<request, verdict>>

(* Methods as the prefixes that triage tells apart.                         *)
Methods == {"tee_getDcapQuote", "eth_sendRawTransaction", "eth_sendBundle", "other"}
Ids     == {"uint64", "string"}
Call    == [id : Ids, method : Methods]

Single(call) == [form |-> "single", calls |-> <<call>>]
Batch(calls) == [form |-> "batch", calls |-> calls]
Garbage      == [form |-> "garbage", calls |-> <<>>]

Requests ==
    {Single(c) : c \in Call} \cup {Batch(b) : b \in BoundedSeq(Call, MaxBatch)} \cup {Garbage}

(* Unmarshal tries one type of id after the other.                          *)
Unmarshal(r) == r.form = "single"

(* UnmarshalBatch succeeds if every id is a number (or there is none).  If  *)
(* every id is a string the batch is built, and then dropped: the function  *)
(* goes on to return the error of the first attempt.                        *)
UnmarshalBatch(r) ==
    r.form = "batch" /\ \A i \in DOMAIN r.calls : r.calls[i].id = "uint64"

Verdict(proxy, prioritise, mirror) ==
    [proxy |-> proxy, prioritise |-> prioritise, mirror |-> mirror]

triageSingle(call) ==
    CASE call.method = "tee_getDcapQuote" -> Verdict(FALSE, FALSE, FALSE)
      [] call.method \in {"eth_sendRawTransaction", "eth_sendBundle"} -> Verdict(TRUE, TRUE, TRUE)
      [] call.method = "other" -> Verdict(TRUE, FALSE, FALSE)

triageBatch(calls) ==
    LET methodsSet == {calls[i].method : i \in DOMAIN calls} IN
    IF calls = <<>> THEN Verdict(FALSE, FALSE, FALSE)
    ELSE IF methodsSet \cap {"eth_sendRawTransaction", "eth_sendBundle"} # {}
         THEN Verdict(TRUE, TRUE, TRUE)
    ELSE Verdict(TRUE, FALSE, FALSE)

triage(r) ==
    IF Unmarshal(r) THEN triageSingle(r.calls[1])
    ELSE IF UnmarshalBatch(r) THEN triageBatch(r.calls)
    ELSE Verdict(TRUE, FALSE, FALSE)

Init == request = Garbage /\ verdict = triage(Garbage)

Receive(r) == request' = r /\ verdict' = triage(r)

Next == \E r \in Requests : Receive(r)

Spec == Init /\ [][Next]_vars

(* As the readme has it: eth_sendRawTransaction is mirrored to the peers,   *)
(* alone or in a batch, whatever its id.                                    *)
TransactionsAreMirrored ==
    (\E i \in DOMAIN request.calls : request.calls[i].method = "eth_sendRawTransaction")
        => verdict.mirror
=============================================================================
