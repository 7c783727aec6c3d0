----------------------------- MODULE MCDevices -----------------------------
(***************************************************************************)
(* The devices, explored in one run: the USB host controller with its      *)
(* gamepad, the GPU's pushbuffer processor and its rasterizer.  No two of  *)
(* them share state, so a behaviour is one of them at work while the       *)
(* others stay in one initial state.  A driver with no register write left *)
(* has a controller that is running already, with lists that end.          *)
(***************************************************************************)
EXTENDS MCUsbHost, MCGpuPushbuffer, MCGpuRaster

VARIABLE part

Parts == {"usb", "gpu", "raster"}

devicesVars == <<part, usbVars, gpuVars, rasterVars>>

DevicesInit ==
    /\ part \in Parts
    /\ part = "usb" \/ left = CHOOSE b \in MCBudgets : TRUE
    /\ UsbInit
    /\ part = "usb" \/ (hc.state = "Operational" /\ ed[Ctl].next = Null)
    /\ left.registers = 0 => hc.state = "Operational" /\ ed[Ctl].next = Null
    /\ GpuInit
    /\ part = "raster" \/ (quad = QuadStart /\ texture = <<1, 1>> /\ scissor = <<>>)
    /\ RasterInit

DevicesNext ==
    \/ /\ part = "usb" /\ UsbNext
       /\ UNCHANGED <<part, gpuVars, rasterVars>>
    \/ /\ part = "gpu" /\ GpuNext
       /\ UNCHANGED <<part, usbVars, rasterVars>>
    \/ /\ part = "raster" /\ RasterizeTriangle
       /\ UNCHANGED <<part, usbVars, gpuVars>>

\* The controller's frames go on for as long as the machine runs.
DevicesSpec ==
    /\ DevicesInit /\ [][DevicesNext]_devicesVars
    /\ part = "usb" => []<><<part = "usb" /\ ProcessFrame>>_usbVars

\* DrawnAndFetchedOnce of GpuRaster, in the behaviours that draw: a pixel on a shared
\* edge is drawn once, and every swizzled texel has an address of its own.
RasterTouchesOnce == part = "raster" => DrawnAndFetchedOnce

=============================================================================
