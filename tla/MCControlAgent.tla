----------------------------- MODULE MCControlAgent ----------------------------
(* Instances of ControlAgent for TLC.                                      *)
EXTENDS ControlAgent

TwoCommands   == {1, 2}
OneCommand    == {1}

===============================================================================
