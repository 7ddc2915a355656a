--------------------------------- MODULE MCOta ---------------------------------
EXTENDS Ota

(* Two images with the same beginning, and a short one.                    *)
Firmware == {<<"x", "y">>, <<"x", "z">>, <<"z">>}
==============================================================================
