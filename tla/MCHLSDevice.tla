---------------------------- MODULE MCHLSDevice ----------------------------
EXTENDS HLSDeviceProps, TLC
CONSTANTS fetch, load, store, compute, app,   \* the instances, and the application
          f0, f1, l0, s0, c0                  \* the devices; two fetch blocks

MCInstances == {fetch, load, store, compute}
MCOwners == MCInstances \cup {app}
MCDriverOf == (fetch :> "fetch") @@ (load :> "load") @@ (store :> "store") @@ (compute :> "compute")
MCDevices == {f0, f1, l0, s0, c0}
MCBlockOf == (f0 :> "fetch") @@ (f1 :> "fetch") @@ (l0 :> "load") @@ (s0 :> "store") @@ (c0 :> "compute")
MCAsks == (fetch :> {f0, f1}) @@ (load :> {l0}) @@ (store :> {s0}) @@ (compute :> {c0})
MCTable == (f0 :> 1) @@ (l0 :> 2) @@ (s0 :> 3) @@ (c0 :> 4)
MCSize == (f0 :> 1) @@ (f1 :> 2) @@ (l0 :> 1) @@ (s0 :> 1) @@ (c0 :> 1)
Pairs == {{fetch, load}, {store, compute}}
=============================================================================
