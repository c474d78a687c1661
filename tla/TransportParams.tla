-------------------------- MODULE TransportParams --------------------------
(***************************************************************************)
(* cRTSPprotocol::parseTransportParams: the Transport line of a SETUP      *)
(* reply is read field by field for the port the server sends from.  A     *)
(* field is a kind and, for the port fields, a number.                     *)
(***************************************************************************)
EXTENDS Integers, Sequences

CONSTANTS
  FieldPorts,  \* numbers a port field may hold
  MaxFields    \* bound on the fields of a line

\* The numbers an unsigned short may hold.
UShort == {n \in Nat : n <= 65535}

ASSUME TransportAssumption == FieldPorts \subseteq UShort /\ MaxFields \in Nat

\* "interleaved" has both channel numbers; "other" is source= or any field none
\* of the tests takes, RTP/AVP for one.
Plain == {"interleaved", "unicast", "destination", "other"}
Field == [kind : Plain, port : {0}]
         \cup [kind : {"server_port", "client_port", "port"}, port : FieldPorts]
Lines == UNION {[1 .. n -> Field] : n \in 0 .. MaxFields}

NotFound == -1

VARIABLES
  fields,   \* what is still unread of the line
  tline,    \* history: the whole line
  found     \* the locals of the call; a port that was not found is NotFound

trVars == <<fields, tline, found>>

AtStart == [serverPort |-> NotFound, clientPort |-> NotFound, channelIds |-> FALSE,
            isMulticast |-> TRUE, destination |-> FALSE, multicastPort |-> NotFound]

TrInit == fields = <<>> /\ tline = <<>> /\ found = AtStart

---------------------------------------------------------------------------
(* Slips a change of parseTransportParams could make.                      *)

\* The unicast field is not looked for.
UnicastIgnored(f) ==
  [found EXCEPT !.serverPort    = IF f.kind = "server_port" THEN f.port ELSE @,
                !.clientPort    = IF f.kind = "client_port" THEN f.port ELSE @,
                !.multicastPort = IF f.kind = "port" THEN f.port ELSE @,
                !.channelIds    = @ \/ f.kind = "interleaved",
                !.destination   = @ \/ f.kind = "destination"]

---------------------------------------------------------------------------

\* parseTransportParams is called with a line.
TrStart(line) == fields' = line /\ tline' = line /\ found' = AtStart

\* What one field changes; a later field of a kind replaces an earlier one.
TakeField(f) ==
  CASE f.kind = "server_port" -> [found EXCEPT !.serverPort = f.port]
    [] f.kind = "client_port" -> [found EXCEPT !.clientPort = f.port]
    [] f.kind = "port"        -> [found EXCEPT !.multicastPort = f.port]
    [] f.kind = "interleaved" -> [found EXCEPT !.channelIds = TRUE]
    [] f.kind = "unicast"     -> [found EXCEPT !.isMulticast = FALSE]
    [] f.kind = "destination" -> [found EXCEPT !.destination = TRUE]
    [] OTHER                  -> found

\* One round of the loop over the fields.
TrField ==
  /\ fields # <<>>
  /\ found' = TakeField(Head(fields))
  /\ fields' = Tail(fields)
  /\ UNCHANGED tline

\* A multicast line is taken by its destination and port.  Otherwise one of
\* three fields makes the line valid; without a server_port the client's own
\* port is taken, and without that one 0.
MulticastLine == found.isMulticast /\ found.destination /\ found.multicastPort # NotFound
TrValid == MulticastLine \/ found.channelIds \/ {found.serverPort, found.clientPort} # {NotFound}
TrPort ==
  IF MulticastLine THEN found.multicastPort
  ELSE IF found.serverPort # NotFound THEN found.serverPort
  ELSE IF found.clientPort # NotFound THEN found.clientPort ELSE 0
=============================================================================
