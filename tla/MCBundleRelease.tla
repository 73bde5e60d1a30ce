-------------------------- MODULE MCBundleRelease --------------------------
(***************************************************************************)
(* An instance of BundleRelease: a trace that names a contract, two other  *)
(* texts under its hash, one of which the contract refuses; a policy       *)
(* selecting one handoff, directories in which that handoff says something *)
(* else, or is there twice; two kernels.                                   *)
(***************************************************************************)
EXTENDS BundleRelease
CONSTANTS h1, h, c, cap1, cap2, ka, kb, good

Event(n, effects, evidence) ==
    [sequence |-> n, refs |-> {c}, principal |-> [tenant |-> "a", roles |-> {}, caps |-> {cap1}],
     cap |-> cap1, effects |-> effects, tenants |-> {"a"}, evidence |-> evidence,
     decision |-> "allow"]
Trace(hash, event) == [hash |-> hash, events |-> <<event>>, selection |-> NoSelection]
Recorded == Trace(h1, Event(1, {"read"}, {"e"}))
Altered == Trace(h1, Event(1, {"read", "write"}, {"e"}))
Unsupported == Trace(h1, Event(1, {"read"}, {}))
MCIdOrder == <<c>>
MCRefs == {NoRef}
MCTraces == {Recorded, Altered, Unsupported}

MCCatalog == [x \in {cap1, cap2} |-> [effect |-> "read", pattern |-> x]]
Delegates(name, cap) == [name |-> name, kind |-> "handoff", id |-> h,
                   body |-> [caps |-> <<[id |-> cap, effect |-> "read", pattern |-> cap]>>]]
Requires(kind, value, layer) == [kind |-> kind, value |-> value, layer |-> layer]
Contract ==
    [name |-> "contract.json", kind |-> "contract", id |-> c,
     body |-> {Requires("effect", "read", "lean"), Requires("evidence", "e", "runtime"),
               Requires("role", "admin", "out_of_scope")}]
Selecting == [handoffs |-> <<h>>, contracts |-> NoId, frame |-> NoId]
Directory(files, policy) ==
    [files |-> files, nested |-> <<>>, toolUse |-> <<>>, policy |-> policy]
First(cap) == Delegates("handoff.json", cap)
Second(cap) == Delegates("handoff_2.json", cap)
MCDirectories ==
    {Directory(<<Contract, First(cap1)>>, Selecting),
     Directory(<<Contract, First(cap2)>>, Selecting),
     Directory(<<Contract, First(cap1), Second(cap2)>>, Selecting)}
MCStarts == {<<Recorded, Directory(<<Contract, First(cap1)>>, Selecting), ka>>}

Checker(live, mode) ==
    [mode |-> mode, requireLive |-> FALSE, allowStub |-> FALSE, live |-> live, stub |-> FALSE,
     version |-> "1.2.3", seed |-> FALSE]
WithStub == [Checker(good, "auto") EXCEPT !.stub = TRUE, !.allowStub = TRUE]
MCEnvironments == {Checker(good, "live"), Checker(NoFile, "mock"), WithStub}
MCPin == [status |-> "pinned", strategy |-> "signed_binary", complete |-> TRUE, binary |-> good,
          version |-> "1.2.3"]
MCSite == [pin |-> MCPin, provision |-> InstalledProvision(MCPin, good), registered |-> FALSE]
=============================================================================
