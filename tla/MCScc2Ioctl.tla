----------------------------- MODULE MCScc2Ioctl -----------------------------
EXTENDS Scc2Ioctl
=============================================================================
