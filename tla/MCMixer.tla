------------------------------ MODULE MCMixer ------------------------------
(***************************************************************************)
(* A small sound card for Mixer: two output devices and the default, one   *)
(* input device, and the modem on the two output devices.  The speaker and *)
(* the earpiece share the "path" control, the speaker and the default the  *)
(* "dac", so that the order of a route change matters; the volumes and the *)
(* mute of the three directions fall on one control.                       *)
(***************************************************************************)
EXTENDS Mixer, TLC

Ctrl(ctl, val) == [kind |-> "ctrl", ctl |-> ctl, val |-> val, max |-> val, attr |-> NoAttr]
Ranged(ctl, max, attr) == [kind |-> "ctrl", ctl |-> ctl, val |-> 0, max |-> max, attr |-> attr]
Switch(ctl, val, attr) == [kind |-> "ctrl", ctl |-> ctl, val |-> val, max |-> val, attr |-> attr]
Write(ctl) == [kind |-> "write", ctl |-> ctl, val |-> 0, max |-> 0, attr |-> NoAttr]

MCCtl == {"dac", "path", "mpath", "vol", "adc"}
MCPowerOn == [c \in MCCtl |-> 0]

MCEnable ==
  [output |-> "dflt" :> <<Ctrl("dac", 1)>>
             @@ "spk" :> <<Ctrl("path", 2), Ctrl("dac", 1)>>
             @@ "ear" :> <<Ctrl("path", 1), Ranged("vol", 1, "output-volume")>>,
   modem |-> "spk" :> <<Ctrl("mpath", 2)>>
            @@ "ear" :> <<Write("dac"), Ctrl("mpath", 1), Ranged("vol", 1, "voice-volume")>>,
   input |-> "mic" :> <<Ctrl("adc", 1), Switch("vol", 1, "mic-mute")>>]

MCDisable ==
  [output |-> "dflt" :> <<Ctrl("dac", 0)>>
             @@ "spk" :> <<Ctrl("dac", 0), Ctrl("path", 0)>>
             @@ "ear" :> <<Ctrl("path", 0)>>,
   modem |-> "spk" :> <<Ctrl("mpath", 0)>>
            @@ "ear" :> <<Ctrl("mpath", 0)>>,
   input |-> "mic" :> <<Switch("vol", 0, "mic-mute"), Ctrl("adc", 0)>>]

ASSUME TidyConfig == Tidy
=============================================================================
