--------------------------- MODULE MCDescriptors ----------------------------
EXTENDS Descriptors

\* The ends of the addresses, the end of a page, and a byte of each weight.
SomeAddresses == {0, 64, 4 * 4096 + 3 * 256 + 2 * 16 + 1, 65535}
=============================================================================
