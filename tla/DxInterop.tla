------------------------------ MODULE DxInterop ------------------------------
(****************************************************************************)
(* The Direct3D/OpenGL interop of the player: the process-wide managers of  *)
(* Commonutils.cpp (D3D11Manager, DXVA2Manager), each with a Direct3D       *)
(* device and a counted reference (WglDeviceRef) to the WGL device opened   *)
(* on it, and the renderers Nv12Render_D3d11va and Nv12Render_Dxva2, which  *)
(* copy both in their constructor, register one shared texture and give     *)
(* everything back in their destructor.                                     *)
(*                                                                          *)
(* Renderers live in the render threads of the players.  main() calls       *)
(* clearGPUResource() when the event loop has ended and the player window,  *)
(* with its renderers, is still alive: the managers let go first and the    *)
(* count decides when the WGL device is closed.                             *)
(****************************************************************************)
EXTENDS Naturals, FiniteSets

CONSTANTS Kinds,        \* the interop paths built in: "d3d11", "dxva2"
          Renderers     \* the renderers that may be made

VARIABLES
    table,      \* g_funcTable: "no" (not loaded), "whole" or "missing"
    manager,    \* [Kinds -> initFlag_, initWglFlag_, device_, wglD3DDevice_]
    control,    \* [Kinds -> the ControlBlock: refCount and whether it is open]
    renderer,   \* [Renderers -> the members of the renderer]
    quiet       \* clearGPUResource() waits until no renderer is being made

vars == <<table, manager, control, renderer, quiet>>

NoRenderer == [pc |-> "none", kind |-> CHOOSE k \in Kinds : TRUE,
               device |-> FALSE, wgl |-> FALSE, processor |-> FALSE,
               target |-> FALSE, handle |-> FALSE, locked |-> FALSE]

Init ==
    /\ table = "no"
    /\ manager = [k \in Kinds |-> [initFlag |-> FALSE, initWglFlag |-> FALSE,
                                   device |-> FALSE, wgl |-> FALSE]]
    /\ control = [k \in Kinds |-> [refCount |-> 0, open |-> FALSE]]
    /\ renderer = [r \in Renderers |-> NoRenderer]
    /\ quiet \in BOOLEAN

-----------------------------------------------------------------------------
(* WglDeviceRef.                                                            *)

\* acquire(): one more reference; ~ControlBlock has run when it is closed,
\* and the count of a freed block is nobody's.
acquire(c) == IF c.open THEN [c EXCEPT !.refCount = @ + 1] ELSE c

\* release(): the reference that was the last one deletes the block, which
\* closes the device.
release(c) ==
    IF c.refCount = 1 THEN [refCount |-> 0, open |-> FALSE]
                      ELSE [c EXCEPT !.refCount = @ - 1]

\* getDevice(): the first call makes the device, or fails for good; after
\* shutdown() the pointer is null and stays so.
getDevice(m, made) ==
    IF m.initFlag THEN m ELSE [m EXCEPT !.initFlag = TRUE, !.device = made]

-----------------------------------------------------------------------------
(* The renderers.                                                           *)

\* The constructor, first member: a copy of the manager's device.
construct(r, k) ==
    /\ renderer[r].pc = "none"
    /\ \E made \in BOOLEAN :
         LET m == getDevice(manager[k], made) IN
         /\ manager' = [manager EXCEPT ![k] = m]
         /\ renderer' = [renderer EXCEPT ![r] =
                           [NoRenderer EXCEPT !.pc = "wgl", !.kind = k,
                                              !.device = m.device]]
    /\ UNCHANGED <<table, control, quiet>>

\* initializeWgl(), once: load the function table, open the WGL device on the
\* Direct3D device.  A table once tried counts as loaded, and without its
\* functions no device is opened.
initializeWgl(r) ==
    LET k == renderer[r].kind IN
    /\ renderer[r].pc = "wgl"
    /\ ~manager[k].initWglFlag
    /\ \E t \in {"whole", "missing"}, made, opened \in BOOLEAN :
         LET m == IF manager[k].device THEN manager[k]
                                       ELSE getDevice(manager[k], made)
         IN  /\ table' = IF table = "no" THEN t ELSE table
             /\ opened => m.device /\ table' = "whole"
             /\ manager' = [manager EXCEPT ![k] =
                              [m EXCEPT !.initWglFlag = TRUE, !.wgl = opened]]
             /\ control' = [control EXCEPT ![k] =
                              [refCount |-> IF opened THEN 1 ELSE 0,
                               open |-> opened]]
    /\ UNCHANGED <<renderer, quiet>>

\* The constructor, second member: acquire() reads the manager's control_ ...
readControl(r) ==
    LET k == renderer[r].kind IN
    /\ renderer[r].pc = "wgl"
    /\ manager[k].initWglFlag
    /\ renderer' = [renderer EXCEPT ![r].wgl = manager[k].wgl,
                                    ![r].pc = "counting"]
    /\ UNCHANGED <<table, manager, control, quiet>>

\* A copy of the reference that does not count itself.
countReferenceNot(r) ==
    /\ renderer[r].pc = "counting"
    /\ renderer' = [renderer EXCEPT ![r].pc = "made"]
    /\ UNCHANGED <<table, manager, control, quiet>>

\* ... and counts itself.
countReference(r) ==
    /\ renderer[r].pc = "counting"
    /\ control' = IF renderer[r].wgl
                  THEN [control EXCEPT ![renderer[r].kind] = acquire(@)]
                  ELSE control
    /\ renderer' = [renderer EXCEPT ![r].pc = "made"]
    /\ UNCHANGED <<table, manager, quiet>>

\* initInteropsResource(): the steps in order, each of which may fail and end
\* it: the device works, the video processor (D3D11 only), the shared target,
\* the registration, which needs a valid reference.  A renderer whose
\* initialisation failed may be initialised again, with the next frame.
initInteropsResource(r) ==
    LET k == renderer[r].kind IN
    /\ renderer[r].pc = "made"
    /\ \E device, processor, target, registered \in BOOLEAN :
         /\ device => renderer[r].device
         /\ processor => device
         /\ target => processor
         /\ registered => target /\ renderer[r].wgl
         /\ renderer' = [renderer EXCEPT
              ![r].processor = @ \/ processor,
              ![r].target = IF processor THEN target ELSE @,
              ![r].handle = registered,
              ![r].pc = IF registered THEN "ready" ELSE "made"]
    /\ UNCHANGED <<table, manager, control, quiet>>

\* renderFrame(): the texture goes to Direct3D for the conversion and back to
\* OpenGL for drawing; the first unlock meets a texture never locked.  The
\* calls on the reference go to the WGL device.
renderFrame(r) ==
    /\ renderer[r].pc = "ready"
    /\ renderer[r].target /\ renderer[r].handle
    /\ renderer' = [renderer EXCEPT ![r].locked = TRUE]
    /\ UNCHANGED <<table, manager, control, quiet>>

\* cleanup(): unregister through a valid reference, then drop texture and
\* target.
cleanup(m) ==
    [m EXCEPT !.handle = @ /\ ~m.wgl, !.locked = FALSE, !.processor = FALSE,
              !.target = FALSE]

\* The destructor: cleanup(), the Direct3D device, then the members, the
\* reference to the WGL device among them.
destruct(r) ==
    LET m == renderer[r]  k == m.kind IN
    /\ m.pc \in {"made", "ready"}
    /\ renderer' = [renderer EXCEPT ![r] =
                      [cleanup(m) EXCEPT !.pc = "gone", !.device = FALSE,
                                         !.wgl = FALSE]]
    /\ control' = IF m.wgl /\ control[k].refCount > 0
                  THEN [control EXCEPT ![k] = release(@)] ELSE control
    /\ UNCHANGED <<table, manager, quiet>>

\* shutdown() of every manager, called by clearGPUResource() and again by the
\* destructors of the managers.
clearGPUResource ==
    /\ quiet => \A r \in Renderers : renderer[r].pc \notin {"wgl", "counting"}
    /\ \E k \in Kinds : manager[k].device \/ manager[k].wgl
    /\ manager' = [k \in Kinds |-> [manager[k] EXCEPT !.device = FALSE,
                                                      !.wgl = FALSE]]
    /\ control' = [k \in Kinds |-> IF manager[k].wgl THEN release(control[k])
                                                     ELSE control[k]]
    /\ UNCHANGED <<table, renderer, quiet>>

Next ==
    \/ \E r \in Renderers :
         \/ \E k \in Kinds : construct(r, k)
         \/ initializeWgl(r) \/ readControl(r) \/ countReference(r)
         \/ initInteropsResource(r) \/ renderFrame(r) \/ destruct(r)
    \/ clearGPUResource

Spec == Init /\ [][Next]_vars

-----------------------------------------------------------------------------
TypeOK ==
    /\ table \in {"no", "whole", "missing"}
    /\ manager \in [Kinds -> [initFlag : BOOLEAN, initWglFlag : BOOLEAN,
                              device : BOOLEAN, wgl : BOOLEAN]]
    /\ control \in [Kinds -> [refCount : Nat, open : BOOLEAN]]
    /\ renderer \in [Renderers ->
         [pc : {"none", "wgl", "counting", "made", "ready", "gone"},
          kind : Kinds, device : BOOLEAN, wgl : BOOLEAN, processor : BOOLEAN,
          target : BOOLEAN, handle : BOOLEAN, locked : BOOLEAN]]
    /\ quiet \in BOOLEAN

\* Whose reference is counted in the control block of k.
Holders(k) == {r \in Renderers : /\ renderer[r].kind = k /\ renderer[r].wgl
                                 /\ renderer[r].pc \in {"made", "ready"}}

(* The WGL device is open exactly while the manager or a renderer refers to *)
(* it, and every texture still registered belongs to an open device: the    *)
(* order in which players are destroyed and main() clears the GPU resources *)
(* does not matter, provided no renderer is being constructed meanwhile     *)
(* (WglDeviceRef::release, Nv12Render_*::cleanup, clearGPUResource).        *)
InteropOpen ==
    quiet =>
      /\ \A k \in Kinds : control[k].open <=> manager[k].wgl \/ Holders(k) # {}
      /\ \A r \in Renderers : renderer[r].handle =>
                                /\ renderer[r].pc = "ready"
                                /\ control[renderer[r].kind].open
=============================================================================
