------------------------------ MODULE Startup ------------------------------
(***************************************************************************)
(* The start of the process up to the running pipeline: Load reads the     *)
(* configuration, the components are built from it, and the messages that  *)
(* arrive are routed by it.                                                *)
(***************************************************************************)
EXTENDS Routing

CONSTANTS
  Configs,  \* configuration files: what each field holds
  Payloads  \* message bodies: whether they decode, and how many samples they give

VARIABLES
  conf,    \* the configuration
  state,   \* "file", "refused", "loaded", "running" or "panicked"
  routed   \* what became of the last message, in a set: its kind, whether it
           \* decodes, its destinations

vars == <<conf, state, routed>>

(* The topic OME uses for a kind: "<ome_identifier>.<kind>" *)
TopicOf(kind) == applyDefaults(conf).identifier \o <<kind>>

Init == conf \in Configs /\ state = "file" /\ routed = {}

(* cfg.Load; main ends the process when it returns an error. *)
Load ==
  /\ state = "file"
  /\ conf' = applyDefaults(conf)
  /\ state' = IF validate(applyDefaults(conf)) THEN "loaded" ELSE "refused"
  /\ UNCHANGED routed

(* The tickers main's constructors create; time.NewTicker panics on a period
   that is not positive. *)
Tickers(c) == {"rwFlush", "lokiFlush"} \cup (IF c.cacheOn THEN {"cacheRetry"} ELSE {})

Build ==
  /\ state = "loaded"
  /\ state' = IF \A t \in Tickers(conf) : conf.settings[t] > 0 THEN "running" ELSE "panicked"
  /\ UNCHANGED <<conf, routed>>

(* A message of some kind arrives on OME's topic for it. *)
Process(kind, payload) ==
  /\ state = "running"
  /\ routed' = {<<kind, payload.valid, Destinations(conf, TopicOf(kind), payload)>>}
  /\ UNCHANGED <<conf, state>>

Next ==
  \/ Load \/ Build
  \/ \E kind \in MessageKinds, payload \in Payloads : Process(kind, payload)

Spec == Init /\ [][Next]_vars

-----------------------------------------------------------------------------
(* Properties *)

(* A configuration that Load accepts starts up, whichever settings the file
   leaves out. *)
LoadedStarts == state # "panicked"

(* "What OME sends and where it goes": what reaches a destination is what the
   table names, and a message that decodes and is not telemetry, which may hold
   no number, does reach it.  The identifier has no dot. *)
DocumentedRoute(kind) ==
  IF kind \in {"telemetry", "health"} THEN {"remote_write"} ELSE {"loki"}
RoutedAsDocumented ==
  Len(conf.identifier) = 1 => \A r \in routed :
    /\ r[3] \subseteq DocumentedRoute(r[1])
    /\ r[2] /\ r[1] # "telemetry" => r[3] = DocumentedRoute(r[1])
=============================================================================
