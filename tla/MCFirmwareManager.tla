------------------------- MODULE MCFirmwareManager -------------------------
(* The build configurations the runs of FirmwareManager range over.         *)
EXTENDS FirmwareManager

Configuration(spi, partition, auto, swdOnBoot) ==
  [spi |-> spi, partition |-> partition, auto |-> auto,
   swdOnBoot |-> swdOnBoot]

(* An SPI device that updates itself, an I2C device without a partition,    *)
(* and an SPI device left alone at boot.                                    *)
MCConfigs ==
  {Configuration(TRUE, TRUE, TRUE, TRUE),
   Configuration(FALSE, FALSE, FALSE, TRUE),
   Configuration(TRUE, TRUE, FALSE, FALSE)}
=============================================================================
