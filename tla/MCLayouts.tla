----------------------------- MODULE MCLayouts -----------------------------
(***************************************************************************)
(* The layouts that outlive the process that wrote them: schema evolution   *)
(* frames, archives and self-authenticating records.  An instance is one of *)
(* them, the other two are idle.                                            *)
(***************************************************************************)
EXTENDS Evolution, Archive, Projection

---------------------------------------------------------------------------
(* Two revisions that know up to three fields of two types. *)

MCConfig(lim, coll, reject) ==
  [little |-> TRUE, variable |-> TRUE, rejectTrailing |-> reject,
   limit |-> lim, collection_limit |-> coll, depth_limit |-> 2]

(* the frames of one and two fields fit into 53 bytes, some of three do not *)
MCConfigs == {MCConfig({}, {2}, TRUE), MCConfig({53}, {}, FALSE)}

MCTypes == {"u64", "str"}
MCValues == {[type |-> "u64", size |-> 2], [type |-> "str", size |-> 3]}

MCField(id) == [id |-> id, value |-> [type |-> "u64", size |-> 2]]
MCForeign ==
  {[FrameOf(s) EXCEPT !.count = n] :
     s \in {<<>>, <<MCField(1)>>, <<MCField(1), MCField(1)>>,
            <<MCField(2), MCField(1)>>, <<MCField(1), MCField(3)>>},
     n \in 0..3}
  \union {[FrameOf(<<>>) EXCEPT !.header = "RBE0"],
          [FrameOf(<<>>) EXCEPT !.schema = 2]}

---------------------------------------------------------------------------
(* Archived structs: scalars between strings and vectors; a vector of        *)
(* structs with strings of their own; a nested struct between scalars; one   *)
(* that ends inside its alignment, where the body of its string covers the   *)
(* padding; and one that may lie at an address that is 4 modulo 8.           *)

U64(n) == <<n, 0, 0, 0, 0, 0, 0, 0>>
U32(n) == <<n, 0, 0, 0>>

Named == Struct(<<Scalar(4), Str>>)
Plain == Struct(<<Scalar(8), Str, Vec(Scalar(4))>>)
Deep  == Struct(<<Scalar(8), Str, Vec(Named)>>)
Inner == Struct(<<Scalar(2), Struct(<<Scalar(2), Str>>), Scalar(8)>>)
Tailed == Struct(<<Scalar(8), Str, Scalar(1)>>)
Narrow == Struct(<<Scalar(4), Vec(Scalar(4)), Str>>)

MCRoots ==
  {<<Plain, <<U64(9), <<97, 98>>, <<U32(1), U32(2)>>>>>>,
   <<Plain, <<U64(9), <<>>, <<>>>>>>,
   <<Deep, <<U64(1), <<97>>, <<<<U32(1), <<98>>>>, <<U32(2), <<>>>>>>>>>>,
   <<Inner, <<<<1, 2>>, <<<<3, 4>>, <<97>>>>, U64(3)>>>>,
   <<Tailed, <<U64(5), <<97>>, <<7>>>>>>,
   <<Narrow, <<U32(5), <<U32(1), U32(2)>>, <<97>>>>>>}

(* a vector whose elements have positions of their own, before a string *)
MCQueuedRoots == {<<Struct(<<Vec(Named), Str>>), <<<<<<U32(1), <<98>>>>>>, <<97>>>>>>}

(* a root that ends one byte behind its alignment, without a body after it *)
MCPaddedRoots == {<<Struct(<<Scalar(8), Scalar(1)>>), <<U64(1), <<2>>>>>>}

(* a vector whose elements do, before a string that is long enough to cover  *)
(* what the elements lack                                                    *)
Uneven == Struct(<<Scalar(1), Scalar(4), Scalar(1)>>)
MCStridedRoots ==
  {<<Struct(<<Vec(Uneven), Str>>),
     <<<<<<<<1>>, U32(2), <<3>>>>, <<<<4>>, U32(5), <<6>>>>>>,
       <<97, 97, 97, 97, 97, 97, 97, 97>>>>>>}

(* a root that needs less alignment than the elements of its vector *)
MCMisalignedRoots == {<<Struct(<<Vec(Scalar(8))>>), <<<<U64(1)>>>>>>}

---------------------------------------------------------------------------
(* Records of up to five fields, so of trees of up to eight leaves.  Under   *)
(* the tight limits a record of two fields fits with payloads of one byte.  *)

MCRecordFields == {<<1, <<>>>>, <<1, <<7>>>>, <<2, <<7>>>>, <<4, <<1, 0>>>>,
                   <<5, <<7>>>>, <<7, <<>>>>}
MCQueries == SUBSET {1, 2, 5, 7}
MCRecordLimit(count, payload, len) ==
  [max_fields |-> count, max_payload_len |-> payload, max_record_len |-> len]
MCRecordLimits == {MCRecordLimit(9, 9, 99), MCRecordLimit(3, 1, 11)}

---------------------------------------------------------------------------

EvolutionIdle ==
  /\ config = MCConfig({}, {}, TRUE) /\ phase = "idle" /\ calls = 0
  /\ written = <<>> /\ frame = FrameOf(<<>>) /\ size = 0 /\ intact = TRUE
  /\ fields = <<>> /\ consumed = {} /\ reads = <<>> /\ result = None

ArchiveIdle ==
  /\ root = <<>> /\ built = <<>> /\ file = <<>> /\ writer = "idle"
  /\ damaged = "nothing" /\ opened = Shut("closed")
  /\ proof = [error |-> "not yet"] /\ answer = [status |-> "waiting", bytes |-> <<>>]

ProjectionIdle ==
  /\ builder = <<>> /\ record = <<>> /\ harm = "nothing" /\ asked = {}
  /\ witness = NoProof("not yet")
  /\ verdict = [by |-> "nobody", expected |-> 0, status |-> "idle", fields |-> <<>>]

LayoutsInit == \/ Init /\ ArchiveIdle /\ ProjectionIdle
               \/ ArchiveInit /\ EvolutionIdle /\ ProjectionIdle
               \/ ProjectionInit /\ EvolutionIdle /\ ArchiveIdle

LayoutsNext == \/ phase # "idle" /\ Next /\ UNCHANGED <<archiveVars, projVars>>
               \/ ArchiveNext /\ UNCHANGED <<evars, projVars>>
               \/ verdict.status # "idle" /\ ProjectionNext /\ UNCHANGED <<evars, archiveVars>>

LayoutsSpec == LayoutsInit /\ [][LayoutsNext]_<<evars, archiveVars, projVars>>
===========================================================================
