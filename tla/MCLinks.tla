------------------------------ MODULE MCLinks ------------------------------
(***************************************************************************)
(* The two protocols that run over a stream: delta frames between two        *)
(* tables, and session frames between two ends.  An instance is one of       *)
(* them, the other is idle.                                                 *)
(***************************************************************************)
EXTENDS DeltaLink, Session, TLC

---------------------------------------------------------------------------
(* Two peers, a table of two entries, three values *)

CONSTANTS a, b, c

MCSize == a :> 1 @@ b :> 2 @@ c :> 300
NoLimit == {}

---------------------------------------------------------------------------
(* Chains with a limit of 30 bytes, or none, around a default of 40 *)

MCChain(lim, reject, z, x, plain) ==
  [limit |-> lim, rejectTrailing |-> reject, compressed |-> z, threshold |-> 8,
   encrypted |-> x, plaintext_limit |-> plain]

MCSetup(ch, mode, verifier, max) ==
  [chain |-> ch, mode |-> mode, verifier |-> verifier, max_frame_len |-> max]

MCSetups ==
  {MCSetup(MCChain({30}, TRUE, FALSE, FALSE, {}), "session", "mac", {30}),
   MCSetup(MCChain({}, FALSE, FALSE, FALSE, {}), "session", "channel", {}),
   MCSetup(MCChain({30}, TRUE, TRUE, FALSE, {}), "session", "channel", {40}),
   MCSetup(MCChain({30}, FALSE, TRUE, TRUE, {}), "session", "channel", {118}),
   MCSetup(MCChain({30}, TRUE, FALSE, TRUE, {}), "session", "channel", {100}),
   MCSetup(MCChain({30}, TRUE, TRUE, FALSE, {}), "stream", "mac", {}),
   MCSetup(MCChain({}, TRUE, TRUE, FALSE, {}), "stream", "mac", {}),
   MCSetup(MCChain({30}, TRUE, FALSE, TRUE, {}), "stream", "mac", {}),
   MCSetup(MCChain({30}, FALSE, TRUE, TRUE, {}), "stream", "mac", {}),
   MCSetup(MCChain({}, TRUE, TRUE, TRUE, {50}), "stream", "mac", {})}

---------------------------------------------------------------------------

(* no session: a stream, which nobody ever closes, that is closed *)
NoSession == ~framed /\ reader = "closed"

SessionIdle ==
  /\ setup = CHOOSE s \in Setups : s.mode = "stream"
  /\ pieces = <<>> /\ writer = "idle" /\ ended = TRUE /\ sends = 0
  /\ pos = 0 /\ reader = "closed" /\ current = 0 /\ want = 0
  /\ delivered = <<>> /\ failed = FALSE /\ allocated = 0 /\ faults = 0

LinksInit == DeltaInit /\ (SessionIdle \/ Init)

LinksNext == \/ ~NoSession /\ Next /\ UNCHANGED dvars
             \/ NoSession /\ DeltaNext /\ UNCHANGED svars

LinksSpec == LinksInit /\ [][LinksNext]_<<dvars, svars>>
===========================================================================
