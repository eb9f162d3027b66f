----------------------------- MODULE Rendering ------------------------------
(***************************************************************************)
(* What is drawn and with which devices: the queue of buffers of one       *)
(* VideoRender and, beside it, the renderers that share the devices of the *)
(* Direct3D interop.                                                       *)
(***************************************************************************)
EXTENDS RenderBufferQueue

CONSTANTS DeviceKinds, Renderers     \* of DxInterop

VARIABLES dTable, dManager, dControl, dRenderer, dQuiet

\* The renderers on the interop devices.
dVars == <<dTable, dManager, dControl, dRenderer, dQuiet>>
Interop == INSTANCE DxInterop WITH
    Kinds <- DeviceKinds, table <- dTable, manager <- dManager, control <- dControl,
    renderer <- dRenderer, quiet <- dQuiet

-----------------------------------------------------------------------------
\* What RenderBufferQueue promises about its buffers over time: the display
\* never goes back to an earlier frame, and some buffer beside the displayed
\* one can always be used.  No step ends otherwise; initially all are free.
BuffersFlow == [][DisplayAdvances /\ BuffersCirculate']_vars

\* The WGL device is closed with its last WglDeviceRef, after the textures that
\* were registered with it.
InteropOpen == Interop!InteropOpen
=============================================================================
