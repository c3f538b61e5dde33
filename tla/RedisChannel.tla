---------------------------- MODULE RedisChannel ----------------------------
(***************************************************************************)
(* RedisChannel: a list of commands and a marker key that tells the engine *)
(* to look at it.  Sending is one transaction, fetching two: get and       *)
(* delete the marker, then read and delete the list.  Any number of        *)
(* clients send, through GraphEngineManager or a channel of their own; one *)
(* engine polls.                                                           *)
(*                                                                         *)
(* A transaction of the engine may raise before or after the server has    *)
(* executed it; CommandProcessor logs that and polls again later.  Both    *)
(* keys get their expiry time from the last send, so they expire together. *)
(***************************************************************************)
EXTENDS Integers, Sequences, SequencesExt

CONSTANTS
  MaxSends,   \* bound: commands sent
  MaxFaults,  \* bound: transactions that raise
  MaxExpiries \* bound: expiries of the keys

ASSUME RedisAssumption == MaxSends \in Nat /\ MaxFaults \in Nat /\ MaxExpiries \in Nat

VARIABLES
  list,      \* the list under the channel's key
  marker,    \* the key ":pending" exists
  engine,        \* the engine: "idle", or "pending" between its two transactions
  delivered, \* commands fetch_commands has returned
  sent,      \* commands sent so far
  faults,
  expiries

redisVars == <<list, marker, engine, delivered, sent, faults, expiries>>

\* A command is told by its number; the payload may be none, or not even a JSON object
\* (if something else than send_command writes to the list).
Forms == {"command", "invalid", "no object"}
Payload == [number : 1..MaxSends, form : Forms]

\* The loop of fetch_commands over the list: what _deserialize_command cannot
\* parse is left out.
Parsed == [number : 1..MaxSends, form : {"command"}]
Deserialized[l \in Seq(Payload)] ==
  IF l = <<>> THEN <<>>
  ELSE IF Last(l).form = "command" THEN Append(Deserialized[Front(l)], Last(l))
       ELSE Deserialized[Front(l)]

RedisInit ==
  /\ list = <<>>
  /\ marker = FALSE
  /\ engine = "idle"
  /\ delivered = <<>>
  /\ sent = 0
  /\ faults = 0
  /\ expiries = 0

\* send_command
SendCommand(form) ==
  /\ sent < MaxSends
  /\ sent' = sent + 1
  /\ list' = Append(list, [number |-> sent', form |-> form])
  /\ marker' = TRUE
  /\ UNCHANGED <<engine, delivered, faults, expiries>>

\* _has_pending_commands; without the marker a fetch ends here.
HasPending ==
  /\ engine = "idle"
  /\ marker
  /\ marker' = FALSE
  /\ engine' = "pending"
  /\ UNCHANGED <<list, delivered, sent, faults, expiries>>

\* A slip: the list is read, and not deleted.
FetchKeepsList ==
  /\ engine = "pending"
  /\ delivered' = delivered \o Deserialized[list]
  /\ engine' = "idle"
  /\ UNCHANGED <<list, marker, sent, faults, expiries>>

\* the second transaction of fetch_commands, and the parsing
Fetch ==
  /\ engine = "pending" /\ \A c \in Range(list) : c.form # "no object"
  /\ delivered' = delivered \o Deserialized[list]
  /\ list' = <<>>
  /\ engine' = "idle"
  /\ UNCHANGED <<marker, sent, faults, expiries>>

\* _deserialize_command raises what the loop does not catch: the list is gone, and
\* nothing is returned of what was parsed before.
FetchLoses ==
  /\ engine = "pending" /\ \E c \in Range(list) : c.form = "no object"
  /\ list' = <<>>
  /\ engine' = "idle"
  /\ UNCHANGED <<marker, delivered, sent, faults, expiries>>

\* A transaction raises, the server having executed it or not.
FetchFails ==
  /\ faults < MaxFaults
  /\ faults' = faults + 1
  /\ engine' = "idle"
  /\ \/ engine = "idle" /\ marker' \in {marker, FALSE} /\ UNCHANGED list
     \/ engine = "pending" /\ list' \in {list, <<>>} /\ UNCHANGED marker
  /\ UNCHANGED <<delivered, sent, expiries>>

\* A slip: the marker keeps the expiry time of an earlier send.
ExpireMarkerAlone ==
  /\ expiries < MaxExpiries
  /\ marker
  /\ marker' = FALSE
  /\ expiries' = expiries + 1
  /\ UNCHANGED <<list, engine, delivered, sent, faults>>

\* command_ttl seconds after the last send
Expire ==
  /\ expiries < MaxExpiries
  /\ list # <<>> \/ marker
  /\ list' = <<>>
  /\ marker' = FALSE
  /\ expiries' = expiries + 1
  /\ UNCHANGED <<engine, delivered, sent, faults>>

RedisNext ==
  \/ \E form \in Forms : SendCommand(form)
  \/ HasPending
  \/ Fetch \/ FetchLoses
  \/ FetchFails
  \/ Expire

\* The dispatcher polls as long as the run goes on.
RedisSpec ==
  /\ RedisInit /\ [][RedisNext]_redisVars
  /\ WF_redisVars(HasPending) /\ WF_redisVars(Fetch \/ FetchLoses)

-----------------------------------------------------------------------------
\* Type invariant: the state is well-formed; what is delivered has been parsed.
RedisTypeOK ==
  /\ list \in Seq(Payload)
  /\ marker \in BOOLEAN
  /\ engine \in {"idle", "pending"}
  /\ delivered \in Seq(Parsed)
  /\ sent \in 0..MaxSends
  /\ faults \in 0..MaxFaults
  /\ expiries \in 0..MaxExpiries

\* As long as no transaction raises, a list that the engine is not about to
\* read has its marker, whenever senders come between the two transactions.
MarkerCoversList == faults = 0 /\ engine = "idle" /\ list # <<>> => marker

\* The two keys and what has been taken from them are consistent.
RedisInv == RedisTypeOK /\ MarkerCoversList

\* The engine gets what was sent in order and at most once, faults and
\* expiries included.
Queue == INSTANCE CommandQueue WITH Command <- Payload, pending <- Deserialized[list]
ImplementsQueue == Queue!Spec

\* As long as no transaction raises no command is stranded: it is fetched, or lost
\* with the whole list because its time was up or something in it was no object.
NeverStranded ==
  Deserialized[list] # <<>> /\ faults = 0 ~> Deserialized[list] = <<>> \/ faults > 0
=============================================================================
