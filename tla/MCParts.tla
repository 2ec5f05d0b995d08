------------------------------ MODULE MCParts ------------------------------
(***************************************************************************)
(* Six parts that share no variable, checked in one run: a behavior is one *)
(* of one part, and the others stay in a state of theirs in which they     *)
(* have nothing to do.  The values of the constants are in Parts.cfg.      *)
(***************************************************************************)
EXTENDS RowStore, Configuration, Startup, ParallelClient, Servers, NameWire

CONSTANTS StandardSize, Unprintable, MaxSize, MaxSends \* RecordJourney

VARIABLES
    part,   \* the part this behavior is of
    posted, place, form, sends

Journey == INSTANCE RecordJourney

rows == vars
travel == <<posted, place, form, sends>>
parts == <<part, rows, travel, startup, configuration, client, servers>>

-----------------------------------------------------------------------------
(* The parts that the behavior is not of                                   *)

RowsAtRest ==
    /\ backend = "sqlite"
    /\ class = CHOOSE c \in Classes : TRUE
    /\ durable = NoRows /\ visible = NoRows
    /\ open = FALSE /\ session = FALSE
JourneyAtRest == posted = <<>> /\ place = "failed" /\ form = <<>> /\ sends = 0
StartupAtRest == store = "sqlite" /\ phase = "down" /\ done = 0
ConfigurationAtRest ==
    /\ database = "sqlite" /\ stored = {} /\ memory = <<>> /\ status = "down"
    /\ jobs = <<>> /\ asked = <<>> /\ crossed = {} /\ operations = 0
ClientAtRest == useUdp = FALSE /\ useTcp = FALSE /\ ClientInit
ServersAtRest ==
    /\ runState = "shutdown" /\ restart = FALSE /\ signals = {} /\ armed = FALSE
    /\ main = "exited" /\ outgoing = 0
    /\ udp = [t \in UdpThreads |-> "none"]
    /\ kind = "dot" /\ acceptor = "none" /\ accepted = 0 /\ free = <<>>
    /\ thread = [t \in Threads |-> "none"] /\ given = [t \in Threads |-> FALSE]

PartsInit ==
    \/ /\ part = "rows" /\ Init
       /\ JourneyAtRest /\ StartupAtRest /\ ConfigurationAtRest /\ ClientAtRest
       /\ ServersAtRest
    \/ /\ part = "journey" /\ Journey!TravelInit
       /\ RowsAtRest /\ StartupAtRest /\ ConfigurationAtRest /\ ClientAtRest
       /\ ServersAtRest
    \/ /\ part = "startup" /\ StartupInit
       /\ RowsAtRest /\ JourneyAtRest /\ ConfigurationAtRest /\ ClientAtRest
       /\ ServersAtRest
    \/ /\ part = "configuration" /\ ConfigurationInit
       /\ RowsAtRest /\ JourneyAtRest /\ StartupAtRest /\ ClientAtRest
       /\ ServersAtRest
    \/ /\ part = "client" /\ ClientInit
       /\ RowsAtRest /\ JourneyAtRest /\ StartupAtRest /\ ConfigurationAtRest
       /\ ServersAtRest
    \/ /\ part = "servers" /\ ServersInit
       /\ RowsAtRest /\ JourneyAtRest /\ StartupAtRest /\ ConfigurationAtRest
       /\ ClientAtRest

PartsNext ==
    \/ /\ part = "rows" /\ Next
       /\ UNCHANGED <<part, travel, startup, configuration, client, servers>>
    \/ /\ part = "journey" /\ Journey!Travel
       /\ UNCHANGED <<part, rows, startup, configuration, client, servers>>
    \/ /\ part = "startup" /\ StartupNext
       /\ UNCHANGED <<part, rows, travel, configuration, client, servers>>
    \/ /\ part = "configuration" /\ ConfigurationNext
       /\ UNCHANGED <<part, rows, travel, startup, client, servers>>
    \/ /\ part = "client" /\ ClientNext
       /\ UNCHANGED <<part, rows, travel, startup, configuration, servers>>
    \/ /\ part = "servers" /\ ServersNext
       /\ UNCHANGED <<part, rows, travel, startup, configuration, client>>

\* No fair action is enabled in a part at rest.
PartsSpec ==
    /\ PartsInit /\ [][PartsNext]_parts
    /\ ClientFairness /\ ServersFairness

-----------------------------------------------------------------------------
(* The properties of the part that is instantiated, each stated and        *)
(* explained in its module; those of the others are checked as they are    *)

\* RecordJourney: a record is the one that was posted.
Unaltered == part = "journey" => Journey!Unaltered

\* RecordJourney: a message is read as it was written.
MessagesComeBack == part = "journey" => Journey!MessagesComeBack
=============================================================================
