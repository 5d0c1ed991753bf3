-------------------------- MODULE MCSignaldTransfer --------------------------
(* SignaldTransfer for TLC: a message with two images; two stickers of the    *)
(* same name in different directories, as if of a known or an unknown type.   *)
EXTENDS SignaldTransfer

CONSTANTS t1, t2, i1, i2, sticker1, sticker2, webp, odd

TwoTexts == {t1, t2}
TwoImages == {i1, i2}
MixedMessages == {<<t1, i1, BrokenTag, t2, i2>>}
TwoStickers == {sticker1, sticker2}
NameOf(p) == "0"
TwoTypes == {webp, odd}
ExtensionOf(t) == IF t = webp THEN "webp" ELSE None
=============================================================================
